---- MODULE Spec2Model ----
(***************************************************************************)
(* Monitor layout tool (screen_placer.py, screen_placer_better_1.py and    *)
(* the older screen_placer_better.py): the Monitor model, the Tk canvas    *)
(* with its drag gesture, the snap-alignment engine and the rotate and     *)
(* rescale key handlers.                                                   *)
(*                                                                         *)
(* Numbers.  Python floats are modelled in fixed point: canvas and logical *)
(* coordinates are integers counting 1/Unit of a pixel, a monitor's scale  *)
(* factor counts 1/ScaleUnit.  The window sizes offered to on_ready are    *)
(* restricted to those for which the canvas scale is 1, 1/2 or 1/4, so     *)
(* that every product and quotient of the layout transform is exact both   *)
(* in binary floating point and on the model's grid.                       *)
(***************************************************************************)
EXTENDS Integers, Sequences, FiniteSets, TLC

Unit == 8
ScaleUnit == 20

(* ---------------------------- bounds ----------------------------------- *)
MaxMonitors == 2
MaxKeys == 1
MaxGestures == 2

Variants == {"screen_placer", "better_1", "better"}
DisplayNames == <<"DP-1", "DP-2", "HDMI-A-1", "HDMI-A-2">>
Resolutions == {<<8, 3>>}
WindowWidths == {12, 16, 20, 24}
WindowHeights == {9}
Pointers == {<<6, 4>>, <<9, 5>>}

VARIABLES
    variant,
    converter,
    home,
    response,
    monitor_modes,
    best_modes,
    phase,
    meta_code,
    fatal,
    monitors,
    ready,
    window,
    layout,
    canvas,
    next_id,
    all_mon_rects,
    selected,
    drag_data,
    align_horizontal,
    align_vertical,
    callback_error,
    gestures,
    button_down

vars == <<variant, converter, home, response, monitor_modes, best_modes, phase, meta_code, fatal, monitors, ready, window, layout, canvas, next_id,
          all_mon_rects, selected, drag_data, align_horizontal, align_vertical,
          callback_error, gestures, button_down>>

(* ------------------------ arithmetic helpers --------------------------- *)
Min(a, b) == IF a <= b THEN a ELSE b
Max(a, b) == IF a >= b THEN a ELSE b

SetMin(S) == CHOOSE x \in S : \A y \in S : x <= y
SetMax(S) == CHOOSE x \in S : \A y \in S : x >= y

RECURSIVE SumTo(_, _)
SumTo(f, n) == IF n = 0 THEN 0 ELSE f[n] + SumTo(f, n - 1)

\* Python round() of the fixed-point value v/Unit: nearest integer, ties to even.
round(v) ==
    LET f == v \div Unit
        r == v % Unit
    IN  IF 2 * r < Unit THEN f
        ELSE IF 2 * r > Unit THEN f + 1
        ELSE IF f % 2 = 0 THEN f ELSE f + 1

\* A float quotient a/b (a, b > 0) rounded to the nearest grid value.
FloatDiv(a, b) == (2 * a + b) \div (2 * b)

(* ----------------------------- Monitor --------------------------------- *)
\* Faulty variant of _apply_transform_resolution: only step 1 exchanges width
\* and height.
_apply_transform_resolution_only_step_1(base, transform) ==
    IF transform = 1 THEN <<base[2], base[1]>> ELSE base

_apply_transform_resolution(base, transform) ==
    IF transform % 2 = 1 THEN <<base[2], base[1]>> ELSE base

Monitor(name, position, resolution, refresh_rate, transform, scale) ==
    [name |-> name,
     position |-> <<position[1] * Unit, position[2] * Unit>>,
     base_resolution |-> resolution,
     resolution |-> _apply_transform_resolution(resolution, transform),
     refresh_rate |-> refresh_rate,
     transform |-> transform,
     scale |-> scale,
     canvas_id |-> 0,
     text_id |-> 0]

\* Faulty variant of rotate_clockwise: the step is not reduced modulo 4.
rotate_clockwise_no_wrap(m) ==
    LET t == m.transform + 1
    IN  [m EXCEPT !.transform = t,
                  !.resolution = _apply_transform_resolution(m.base_resolution, t)]

rotate_clockwise(m) ==
    LET t == (m.transform + 1) % 4
    IN  [m EXCEPT !.transform = t,
                  !.resolution = _apply_transform_resolution(m.base_resolution, t)]

\* Faulty variant of rotate_anticlockwise: the step is not reduced modulo 4.
rotate_anticlockwise_no_wrap(m) ==
    LET t == m.transform - 1
    IN  [m EXCEPT !.transform = t,
                  !.resolution = _apply_transform_resolution(m.base_resolution, t)]

\* Faulty variant of rotate_anticlockwise: the rotated resolution is not
\* recomputed after the step.
rotate_anticlockwise_stale_resolution(m) ==
    [m EXCEPT !.transform = (m.transform - 1) % 4]

rotate_anticlockwise(m) ==
    LET t == (m.transform - 1) % 4
    IN  [m EXCEPT !.transform = t,
                  !.resolution = _apply_transform_resolution(m.base_resolution, t)]

\* assert rotation_degree in [0, 90, 180, 270]
set_rotation_rejects(rotation_degree) == rotation_degree \notin {0, 90, 180, 270}

\* set_rotation: the assert rejects the call (the monitor is left as it was).
set_rotation(m, rotation_degree) ==
    IF ~set_rotation_rejects(rotation_degree)
    THEN LET t == rotation_degree \div 90
         IN  [m EXCEPT !.transform = t,
                       !.resolution = _apply_transform_resolution(m.base_resolution, t)]
    ELSE m

\* assert scale > 0
set_scale_rejects(scale) == ~(scale > 0)

\* Faulty variant of set_scale: a scale that is not positive is replaced by
\* the smallest scale of the keys.
set_scale_clamps(m, scale) ==
    IF set_scale_rejects(scale) THEN [m EXCEPT !.scale = ScaleUnit \div 2]
    ELSE [m EXCEPT !.scale = scale]

\* set_scale: the assert rejects a scale that is not positive.
set_scale(m, scale) ==
    IF set_scale_rejects(scale) THEN m ELSE [m EXCEPT !.scale = scale]

get_effective_resolution(m) ==
    <<(m.resolution[1] * ScaleUnit) \div m.scale,
      (m.resolution[2] * ScaleUnit) \div m.scale>>

(* ---------------------- get_best_monitor_modes ------------------------- *)
\* Refresh rates are floats parsed from the xrandr listing; they count
\* 1/RateUnit Hz.  A resolution "WxH" is the pair <<W, H>>.
RateUnit == 100

\* Python round() of the rate v/RateUnit: nearest integer, ties to even.
round_rate(v) ==
    LET f == v \div RateUnit
        r == v % RateUnit
    IN  IF 2 * r < RateUnit THEN f
        ELSE IF 2 * r > RateUnit THEN f + 1
        ELSE IF f % 2 = 0 THEN f ELSE f + 1

res_area(res) == res[1] * res[2]

\* The keys of res_to_rates in insertion order: each resolution once, in the
\* order of its first mode.
RECURSIVE res_to_rates_keys(_)
res_to_rates_keys(modes) ==
    IF modes = <<>> THEN <<>>
    ELSE LET front == res_to_rates_keys(SubSeq(modes, 1, Len(modes) - 1))
             res == modes[Len(modes)][1]
         IN  IF \E i \in 1..Len(front) : front[i] = res THEN front
             ELSE Append(front, res)

\* Faulty variant of best_res: of several resolutions of the largest area the
\* last one wins.
best_res_last_wins(modes) ==
    LET keys == res_to_rates_keys(modes)
        i == SetMax({k \in 1..Len(keys) :
                        \A j \in 1..Len(keys) : res_area(keys[j]) <= res_area(keys[k])})
    IN  keys[i]

\* max(res_to_rates.keys(), key=res_area): the first key of the largest area.
best_res(modes) ==
    LET keys == res_to_rates_keys(modes)
        i == SetMin({k \in 1..Len(keys) :
                        \A j \in 1..Len(keys) : res_area(keys[j]) <= res_area(keys[k])})
    IN  keys[i]

\* max(res_to_rates[best_res])
best_rate(modes) ==
    SetMax({modes[k][2] : k \in {j \in 1..Len(modes) : modes[j][1] = best_res(modes)}})

\* best_modes[monitor] = None
NoMode == [res |-> <<>>, refresh |-> 0]

get_best_monitor_modes(listing) ==
    [d \in 1..Len(listing) |->
        IF listing[d].modes = <<>>
        THEN [name |-> listing[d].name, res |-> NoMode.res, refresh |-> NoMode.refresh]
        ELSE [name |-> listing[d].name,
              res |-> best_res(listing[d].modes),
              refresh |-> round_rate(best_rate(listing[d].modes))]]

(* ------------------------- create_monitors ----------------------------- *)
RECURSIVE x_offset(_, _)
x_offset(modes, i) ==
    IF i = 1 THEN 0 ELSE x_offset(modes, i - 1) + modes[i - 1].res[1]

\* Index of the first monitor named DP-2, 0 when there is none.
FirstDP2(mons) ==
    IF \E i \in 1..Len(mons) : mons[i].name = "DP-2"
    THEN SetMin({i \in 1..Len(mons) : mons[i].name = "DP-2"})
    ELSE 0

create_monitors(v, modes) ==
    LET mons == [i \in 1..Len(modes) |->
                    Monitor(modes[i].name, <<x_offset(modes, i), 0>>, modes[i].res,
                            modes[i].refresh, 0, ScaleUnit)]
        d == FirstDP2(mons)
    IN  IF v = "better" \/ d = 0 THEN mons
        ELSE <<mons[d]>> \o SubSeq(mons, 1, d - 1) \o SubSeq(mons, d + 1, Len(mons))

\* The display-discovery results offered to the program: 1..MaxMonitors
\* displays, each with one best mode.
BestModesOfLen(n) ==
    {[i \in 1..n |-> [name |-> DisplayNames[i], res |-> r[i], refresh |-> 60]] :
        r \in [1..n -> Resolutions]}

BestModeInputs == UNION {BestModesOfLen(n) : n \in 1..MaxMonitors}

\* The xrandr listing behind a discovery result: every display lists its one
\* mode.
listed_modes(best) ==
    [d \in 1..Len(best) |->
        [name |-> best[d].name,
         modes |-> <<<<best[d].res, best[d].refresh * RateUnit>>>>]]

\* Python's None, and a value that is not None, as a sequence of length 0 or 1.
None == <<>>

\* The converter of screen_placer_better.py is not running: the object was
\* never constructed, no answer was read, no file of the home directory is
\* looked at.
not_converting ==
    /\ converter = [original_state |-> None, new_state |-> None]
    /\ home = [config_file |-> None, writes |-> 0, backup_dir |-> <<>>]
    /\ response = None

\* The program is inside root.mainloop(): nothing is printed, nothing failed.
in_mainloop ==
    /\ monitor_modes = listed_modes(best_modes)
    /\ phase = "mainloop"
    /\ meta_code = <<>>
    /\ fatal = ""
    /\ not_converting

(* ------------------------ layout of the canvas ------------------------- *)
calculate_canvas_position(window_width, window_height, canvas_width, canvas_height) ==
    <<Max(0, (window_width * Unit - canvas_width) \div 2),
      Max(0, (window_height * Unit - canvas_height) \div 2)>>

\* sorted(monitors, key=position[0]): the stable ascending order, as indices.
monitors_sorted(mons) ==
    LET n == Len(mons)
        before(a, b) == \/ mons[a].position[1] < mons[b].position[1]
                         \/ (mons[a].position[1] = mons[b].position[1] /\ a < b)
    IN  CHOOSE p \in [1..n -> 1..n] :
            \A i, j \in 1..n : i < j => before(p[i], p[j])

\* Faulty variant of calculate_monitor_offset: with an even count the left
\* edge of the lower-middle monitor is taken instead of its right edge.
calculate_monitor_offset_left_edge(mons) ==
    LET n == Len(mons)
        srt == monitors_sorted(mons)
        total_width == SumTo([i \in 1..n |-> mons[i].resolution[1]], n)
        center_x == (total_width * Unit) \div 2
    IN  IF n = 0 THEN <<0, 0>>
        ELSE IF n % 2 = 1
        THEN LET mid_mon == mons[srt[(n \div 2) + 1]]
                 mid_center_x == mid_mon.position[1] + (mid_mon.resolution[1] * Unit) \div 2
             IN  center_x - mid_center_x
        ELSE LET mon1 == mons[srt[n \div 2]]
                 mon2 == mons[srt[(n \div 2) + 1]]
                 mid_center_x == (mon1.position[1] + mon2.position[1]) \div 2
             IN  center_x - mid_center_x

calculate_monitor_offset(mons) ==
    LET n == Len(mons)
        srt == monitors_sorted(mons)
        total_width == SumTo([i \in 1..n |-> mons[i].resolution[1]], n)
        center_x == (total_width * Unit) \div 2
    IN  IF n = 0 THEN <<0, 0>>
        ELSE IF n % 2 = 1
        THEN LET mid_mon == mons[srt[(n \div 2) + 1]]
                 mid_center_x == mid_mon.position[1] + (mid_mon.resolution[1] * Unit) \div 2
             IN  center_x - mid_center_x
        ELSE LET mon1 == mons[srt[n \div 2]]
                 mon2 == mons[srt[(n \div 2) + 1]]
                 mid_center_x == (mon1.position[1] + mon1.resolution[1] * Unit
                                  + mon2.position[1]) \div 2
             IN  center_x - mid_center_x

\* draw_monitors before the window exists: the virtual canvas and its margins;
\* scale, canvas_pos and the centering offsets hold their initial values.
draw_monitors(mons) ==
    LET n == Len(mons)
        sum_width == SumTo([i \in 1..n |-> mons[i].resolution[1]], n)
        sum_height == SumTo([i \in 1..n |-> mons[i].resolution[2]], n)
        max_width == SetMax({mons[i].resolution[1] : i \in 1..n})
        max_height == SetMax({mons[i].resolution[2] : i \in 1..n})
    IN  [max_width |-> max_width,
         max_height |-> max_height,
         virtual_width |-> sum_width + 2 * max_width,
         virtual_height |-> sum_height + 2 * max_height,
         scale_n |-> 1, scale_d |-> 1,
         canvas_pos_x |-> 0, canvas_pos_y |-> 0,
         monitor_offset_x |-> 0, monitor_offset_y |-> 0]

\* x * scale and x / scale for the canvas scale scale_n/scale_d.
TimesScale(x, L) == (x * L.scale_n) \div L.scale_d
OverScale(x, L) == (x * L.scale_d) \div L.scale_n

\* scale = min(window_width / virtual_width, window_height / virtual_height)
canvas_scale(L, win) ==
    IF win[1] * L.virtual_height <= win[2] * L.virtual_width
    THEN <<win[1], L.virtual_width>>
    ELSE <<win[2], L.virtual_height>>

\* Window sizes for which the canvas scale is 1, 1/2 or 1/4.
ExactScale(L, win) ==
    LET s == canvas_scale(L, win)
    IN  s[2] \in {s[1], 2 * s[1], 4 * s[1]}

\* The layout constants computed by on_ready.
on_ready_layout(L0, mons, win) ==
    LET s == canvas_scale(L0, win)
        L1 == [L0 EXCEPT !.scale_n = s[1], !.scale_d = s[2]]
        center_canvas_width == TimesScale(L0.virtual_width * Unit, L1)
        center_canvas_height == TimesScale(L0.virtual_height * Unit, L1)
        pos == calculate_canvas_position(win[1], win[2], center_canvas_width,
                                         center_canvas_height)
        n == Len(mons)
        min_y == SetMin({mons[i].position[2] : i \in 1..n})
        max_y == SetMax({mons[i].position[2] + mons[i].resolution[2] * Unit : i \in 1..n})
        monitor_total_height == max_y - min_y
    IN  [L1 EXCEPT !.canvas_pos_x = pos[1],
                   !.canvas_pos_y = pos[2],
                   !.monitor_offset_x = calculate_monitor_offset(mons),
                   !.monitor_offset_y =
                       (L0.virtual_height * Unit - monitor_total_height) \div 2
                       - L0.max_height * Unit]

\* Forward transform: the canvas rectangle of a monitor.
get_monitor_canvas_coords(m, L) ==
    LET adj_x == m.position[1] + L.max_width * Unit + L.monitor_offset_x
        adj_y == m.position[2] + L.max_height * Unit + L.monitor_offset_y
        scaled_x == TimesScale(adj_x, L) + L.canvas_pos_x
        scaled_y == TimesScale(adj_y, L) + L.canvas_pos_y
        scaled_w == TimesScale(m.resolution[1] * Unit, L)
        scaled_h == TimesScale(m.resolution[2] * Unit, L)
    IN  <<scaled_x, scaled_y, scaled_x + scaled_w, scaled_y + scaled_h>>

\* Faulty variant of inverse_transform: the centering offsets are left out.
inverse_transform_without_offset(x1, y1, L) ==
    <<OverScale(x1 - L.canvas_pos_x, L) - L.max_width * Unit,
      OverScale(y1 - L.canvas_pos_y, L) - L.max_height * Unit>>

\* Inverse transform of a canvas point, before rounding.
inverse_transform(x1, y1, L) ==
    <<OverScale(x1 - L.canvas_pos_x, L) - L.max_width * Unit - L.monitor_offset_x,
      OverScale(y1 - L.canvas_pos_y, L) - L.max_height * Unit - L.monitor_offset_y>>

rect_center(c) == <<(c[1] + c[3]) \div 2, (c[2] + c[4]) \div 2>>

\* Items drawn before the monitors: the instruction texts, the background
\* and (but for better_1) the red marker.
StaticItems(v) ==
    IF v = "screen_placer" THEN 10 ELSE IF v = "better_1" THEN 9 ELSE 2


(* ------------------------------ canvas --------------------------------- *)
\* The canvas maps the id of every existing item to its coordinates: four
\* numbers for a monitor rectangle, two for a label, none for the items the
\* layout never reads (instructions, background, marker, bounding box).
create_item(c, id, coords) ==
    [i \in DOMAIN c \cup {id} |-> IF i = id THEN coords ELSE c[i]]

delete(c, ids) == [i \in DOMAIN c \ ids |-> c[i]]

\* canvas.coords(id): the empty list for an id that names no item.
coords(c, id) == IF id \in DOMAIN c THEN c[id] ELSE <<>>

\* Faulty variant of move: the item is moved along x only.
move_along_x(c, id, dx, dy) ==
    IF id \notin DOMAIN c THEN c
    ELSE [c EXCEPT ![id] = [n \in 1..Len(@) |-> IF n % 2 = 1 THEN @[n] + dx ELSE @[n]]]

\* Faulty variant of move: every item of the canvas is translated.
move_every_item(c, id, dx, dy) ==
    [i \in DOMAIN c |->
        IF Len(c[i]) = 4 THEN <<c[i][1] + dx, c[i][2] + dy, c[i][3] + dx, c[i][4] + dy>>
        ELSE IF Len(c[i]) = 2 THEN <<c[i][1] + dx, c[i][2] + dy>>
        ELSE c[i]]

\* canvas.move(id, dx, dy); nothing happens for an id that names no item.
move(c, id, dx, dy) ==
    IF id \notin DOMAIN c THEN c
    ELSE [c EXCEPT ![id] =
            [n \in 1..Len(@) |-> IF n % 2 = 1 THEN @[n] + dx ELSE @[n] + dy]]

(* --------------------------- snap engine ------------------------------- *)
\* Faulty variant of get_key_points: the corners are listed row by row.
get_key_points_row_by_row(rect_coords) ==
    LET x1 == rect_coords[1]
        y1 == rect_coords[2]
        x2 == rect_coords[3]
        y2 == rect_coords[4]
        cx == (x1 + x2) \div 2
        cy == (y1 + y2) \div 2
    IN  << <<x1, y1>>, <<x2, y1>>, <<x1, y2>>, <<x2, y2>>,
           <<cx, y1>>, <<x2, cy>>, <<cx, y2>>, <<x1, cy>>, <<cx, cy>> >>

get_key_points(rect_coords) ==
    LET x1 == rect_coords[1]
        y1 == rect_coords[2]
        x2 == rect_coords[3]
        y2 == rect_coords[4]
        cx == (x1 + x2) \div 2
        cy == (y1 + y2) \div 2
    IN  << <<x1, y1>>, <<x2, y1>>, <<x2, y2>>, <<x1, y2>>,
           <<cx, y1>>, <<x2, cy>>, <<cx, y2>>, <<x1, cy>>, <<cx, cy>> >>

\* The rectangle ids all_mon_rects holds for the monitors other than exclude,
\* in the dictionary's order.
other_rect_ids(rects, exclude) ==
    LET idx == {i \in 1..Len(rects) : i # exclude}
        nth[n \in 0..Len(rects)] ==
            IF n = 0 THEN <<>>
            ELSE IF n \in idx THEN Append(nth[n - 1], rects[n]) ELSE nth[n - 1]
    IN  nth[Len(rects)]

\* Unpacking x1, y1, x2, y2 fails on the empty coordinate list of a deleted item.
keypoints_raise(c, rects, exclude) ==
    \E i \in 1..Len(rects) : i # exclude /\ Len(coords(c, rects[i])) # 4

get_other_monitors_keypoints_tensor(c, rects, exclude) ==
    LET ids == other_rect_ids(rects, exclude)
    IN  [j \in 1..Len(ids) |-> get_key_points(coords(c, ids[j]))]

\* float("inf")
Inf == -1

\* Faulty variant of norm2: the y component is left out of the distance.
norm2_forgets_y(drag_pt, other_pt) ==
    (drag_pt[1] - other_pt[1]) * (drag_pt[1] - other_pt[1])

\* The square of np.linalg.norm(drag_pt - other_pt); the order of two
\* distances is the order of their squares.
norm2(drag_pt, other_pt) ==
    (drag_pt[1] - other_pt[1]) * (drag_pt[1] - other_pt[1])
    + (drag_pt[2] - other_pt[2]) * (drag_pt[2] - other_pt[2])

\* Faulty variant of closer: dist <= min_dist, the last minimiser wins.
closer_or_equal(dist, min_dist) == min_dist = Inf \/ dist <= min_dist

\* dist < min_dist
closer(dist, min_dist) == min_dist = Inf \/ dist < min_dist

\* Faulty variant of best_delta_of: drag_pt - other_pt.
best_delta_of_reversed(drag_pt, other_pt) ==
    <<drag_pt[1] - other_pt[1], drag_pt[2] - other_pt[2]>>

\* other_pt - drag_pt
best_delta_of(drag_pt, other_pt) ==
    <<other_pt[1] - drag_pt[1], other_pt[2] - drag_pt[2]>>

\* for k, other_pt in enumerate(mon_keypoints), from index k on (indices
\* count from 0, as in the code).
RECURSIVE loop_k(_, _, _, _, _, _)
loop_k(drag_pt, i, j, mon_keypoints, k, best) ==
    IF k = Len(mon_keypoints) THEN best
    ELSE LET other_pt == mon_keypoints[k + 1]
             dist == norm2(drag_pt, other_pt)
         IN  IF closer(dist, best.info[4])
             THEN loop_k(drag_pt, i, j, mon_keypoints, k + 1,
                         [delta |-> best_delta_of(drag_pt, other_pt),
                          info |-> <<i, j, k, dist>>])
             ELSE loop_k(drag_pt, i, j, mon_keypoints, k + 1, best)

\* TRUE; it has TLC compute the running minimum before the next iteration
\* rather than hand it on uncomputed through the whole search.
evaluated(best) == best = best

\* for j, mon_keypoints in enumerate(others_tensor), from index j on
RECURSIVE loop_j(_, _, _, _, _)
loop_j(drag_pt, i, others_tensor, j, best) ==
    IF evaluated(best) /\ j < Len(others_tensor)
    THEN loop_j(drag_pt, i, others_tensor, j + 1,
                loop_k(drag_pt, i, j, others_tensor[j + 1], 0, best))
    ELSE best

\* for i, drag_pt in enumerate(dragged_keypoints), from index i on
RECURSIVE loop_i(_, _, _, _)
loop_i(dragged_keypoints, others_tensor, i, best) ==
    IF evaluated(best) /\ i < Len(dragged_keypoints)
    THEN loop_i(dragged_keypoints, others_tensor, i + 1,
                loop_j(dragged_keypoints[i + 1], i, others_tensor, 0, best))
    ELSE best

\* Faulty variant of find_closest_alignment: the search leaves out the first
\* keypoint of the dragged rectangle.
find_closest_alignment_skips_first(dragged_keypoints, others_tensor) ==
    loop_i(dragged_keypoints, others_tensor, 1,
           [delta |-> <<0, 0>>, info |-> <<-1, -1, -1, Inf>>])

find_closest_alignment(dragged_keypoints, others_tensor) ==
    loop_i(dragged_keypoints, others_tensor, 0,
           [delta |-> <<0, 0>>, info |-> <<-1, -1, -1, Inf>>])

\* Faulty variant of align_mask: the two flags are exchanged.
align_mask_swapped(delta, horizontal, vertical) ==
    <<IF vertical THEN delta[1] ELSE 0, IF horizontal THEN delta[2] ELSE 0>>

\* delta *= np.array([align_horizontal, align_vertical])
align_mask(delta, horizontal, vertical) ==
    <<IF horizontal THEN delta[1] ELSE 0, IF vertical THEN delta[2] ELSE 0>>


(* ------------------------------- Init ---------------------------------- *)
\* The instruction texts are drawn before the event loop starts (not in the
\* oldest variant, which has none).
InstructionItems(v) == IF v = "better" THEN 0 ELSE 8

Windows == WindowWidths \X WindowHeights

Init ==
    /\ variant \in Variants
    /\ best_modes \in BestModeInputs
    /\ in_mainloop
    /\ monitors = create_monitors(variant, best_modes)
    /\ ready = FALSE
    /\ window = <<0, 0>>
    /\ layout = draw_monitors(monitors)
    /\ canvas = [i \in 1..InstructionItems(variant) |-> <<>>]
    /\ next_id = InstructionItems(variant) + 1
    /\ all_mon_rects = <<>>
    /\ selected = 0
    /\ drag_data = [x |-> 0, y |-> 0, item |-> 0, monitor |-> 0]
    /\ align_horizontal = TRUE
    /\ align_vertical = TRUE
    /\ callback_error = FALSE
    /\ gestures = 0
    /\ button_down = FALSE

(* ------------------------------ on_ready ------------------------------- *)
\* Item ids of the first drawing: after the static items come, monitor by
\* monitor, the rectangle and its label, then the bounding box.
first_rect_id(v, i) == StaticItems(v) + 2 * i - 1
first_text_id(v, i) == StaticItems(v) + 2 * i
first_bounding_rect_id(v, n) == StaticItems(v) + 2 * n + 1

drawn_canvas(v, mons, L) ==
    [id \in 1..first_bounding_rect_id(v, Len(mons)) |->
        IF id <= StaticItems(v) \/ id = first_bounding_rect_id(v, Len(mons)) THEN <<>>
        ELSE LET i == (id - StaticItems(v) + 1) \div 2
                 rect == get_monitor_canvas_coords(mons[i], L)
             IN  IF id = first_rect_id(v, i) THEN rect ELSE rect_center(rect)]

drawn_monitors(v, mons) ==
    [i \in 1..Len(mons) |->
        [mons[i] EXCEPT !.canvas_id = first_rect_id(v, i), !.text_id = first_text_id(v, i)]]

drawn_all_mon_rects(v, mons) ==
    IF v = "better" THEN <<>> ELSE [i \in 1..Len(mons) |-> first_rect_id(v, i)]

\* The window has its size: compute the transform and draw every monitor.
on_ready(win) ==
    /\ ~ready
    /\ ExactScale(layout, win)
    /\ ready' = TRUE
    /\ window' = win
    /\ layout' = on_ready_layout(layout, monitors, win)
    /\ canvas' = drawn_canvas(variant, monitors, layout')
    /\ next_id' = first_bounding_rect_id(variant, Len(monitors)) + 1
    /\ monitors' = drawn_monitors(variant, monitors)
    /\ all_mon_rects' = drawn_all_mon_rects(variant, monitors)
    /\ callback_error' = FALSE
    /\ UNCHANGED <<variant, converter, home, response, monitor_modes, best_modes, phase, meta_code, fatal, selected, drag_data,
                   align_horizontal, align_vertical, gestures, button_down>>

(* ------------------------------ toggles -------------------------------- *)
toggle_horizontal ==
    /\ variant # "better"
    /\ align_horizontal' = ~align_horizontal
    /\ callback_error' = FALSE
    /\ UNCHANGED <<variant, converter, home, response, monitor_modes, best_modes, phase, meta_code, fatal, monitors, ready, window, layout, canvas,
                   next_id, all_mon_rects, selected, drag_data, align_vertical, gestures,
                   button_down>>

\* Faulty variant of toggle_vertical: it flips the horizontal flag.
toggle_vertical_wrong_flag ==
    /\ variant # "better"
    /\ align_horizontal' = ~align_horizontal
    /\ callback_error' = FALSE
    /\ UNCHANGED <<variant, converter, home, response, monitor_modes, best_modes, phase, meta_code, fatal, monitors, ready, window, layout, canvas,
                   next_id, all_mon_rects, selected, drag_data, align_vertical, gestures,
                   button_down>>

toggle_vertical ==
    /\ variant # "better"
    /\ align_vertical' = ~align_vertical
    /\ callback_error' = FALSE
    /\ UNCHANGED <<variant, converter, home, response, monitor_modes, best_modes, phase, meta_code, fatal, monitors, ready, window, layout, canvas,
                   next_id, all_mon_rects, selected, drag_data, align_horizontal, gestures,
                   button_down>>

(* --------------------------- drag gesture ------------------------------ *)
\* Faulty variant of monitor_of_item: an item that is no monitor's rectangle
\* is taken for the first monitor's.
monitor_of_item_first_by_default(item) ==
    IF \E i \in 1..Len(monitors) : monitors[i].canvas_id = item
    THEN SetMin({i \in 1..Len(monitors) : monitors[i].canvas_id = item})
    ELSE 1

\* <ButtonRelease-1>: button_down is the state of mouse button 1, so that a
\* press follows a release and motion and release follow a press.
\* The first monitor whose canvas_id is item, 0 when there is none.
monitor_of_item(item) ==
    IF \E i \in 1..Len(monitors) : monitors[i].canvas_id = item
    THEN SetMin({i \in 1..Len(monitors) : monitors[i].canvas_id = item})
    ELSE 0

\* What find_closest may answer at (x, y): a monitor rectangle the pointer is
\* in, or an item that is no monitor's rectangle.  The handler only compares
\* the answer with the monitors' canvas_id, so the background stands for every
\* item of the second kind (labels, instructions, marker, bounding box).
background == InstructionItems(variant) + 1

find_closest(x, y) ==
    {background} \cup
    {id \in DOMAIN canvas :
        /\ Len(canvas[id]) = 4
        /\ canvas[id][1] <= x * Unit /\ x * Unit <= canvas[id][3]
        /\ canvas[id][2] <= y * Unit /\ y * Unit <= canvas[id][4]}

on_start_drag(x, y, item) ==
    LET mon == monitor_of_item(item)
    IN  /\ ready
        /\ ~button_down
        /\ button_down' = TRUE
        /\ item \in find_closest(x, y)
        /\ mon # 0 => gestures < MaxGestures
        /\ gestures' = IF mon # 0 THEN gestures + 1 ELSE gestures
        /\ drag_data' = IF mon # 0
                        THEN [x |-> x, y |-> y, item |-> item, monitor |-> mon]
                        ELSE drag_data
        /\ selected' = IF variant = "better_1"
                       THEN (IF mon # 0 THEN item ELSE 0)
                       ELSE selected
        /\ callback_error' = FALSE
        /\ UNCHANGED <<variant, converter, home, response, monitor_modes, best_modes, phase, meta_code, fatal, monitors, ready, window, layout, canvas,
                       next_id, all_mon_rects, align_horizontal, align_vertical>>

on_drag(x, y) ==
    /\ ready
    /\ button_down
    /\ IF drag_data.item # 0
       THEN LET dx == (x - drag_data.x) * Unit
                dy == (y - drag_data.y) * Unit
                mon == monitors[drag_data.monitor]
            IN  /\ drag_data' = [drag_data EXCEPT !.x = x, !.y = y]
                /\ canvas' = move(move(canvas, mon.canvas_id, dx, dy), mon.text_id, dx, dy)
       ELSE UNCHANGED <<drag_data, canvas>>
    /\ callback_error' = FALSE
    /\ UNCHANGED <<variant, converter, home, response, monitor_modes, best_modes, phase, meta_code, fatal, monitors, ready, window, layout, next_id,
                   all_mon_rects, selected, align_horizontal, align_vertical, gestures,
                   button_down>>

\* The snap of on_end_drag: the unmasked result of the search for the
\* monitor being dragged, on the canvas as it is.
snap_of(c, rects, mons, m) ==
    find_closest_alignment(get_key_points(coords(c, mons[m].canvas_id)),
                           get_other_monitors_keypoints_tensor(c, rects, m))

\* Faulty variant of rounded_position: new_x, new_y are stored as they are.
rounded_position_unrounded(new) == <<new[1], new[2]>>

\* mon.position = np.array([round(new_x), round(new_y)])
rounded_position(new) == <<round(new[1]) * Unit, round(new[2]) * Unit>>

\* Faulty variant of committed_position: the bottom-right corner is used.
committed_position_bottom_right(rect_coords, L) ==
    rounded_position(inverse_transform(rect_coords[3], rect_coords[4], L))

\* The position a release commits: the inverse-transformed top-left corner
\* of the rectangle, rounded.
committed_position(rect_coords, L) ==
    rounded_position(inverse_transform(rect_coords[1], rect_coords[2], L))

on_end_drag ==
    /\ ready
    /\ button_down
    /\ button_down' = FALSE
    /\ IF drag_data.monitor # 0 /\ keypoints_raise(canvas, all_mon_rects, drag_data.monitor)
       THEN \* ValueError inside get_other_monitors_keypoints_tensor
            /\ callback_error' = TRUE
            /\ UNCHANGED <<drag_data, canvas, monitors>>
       ELSE /\ callback_error' = FALSE
            /\ drag_data' = [drag_data EXCEPT !.item = 0, !.monitor = 0]
            /\ IF drag_data.monitor # 0
               THEN LET m == drag_data.monitor
                        mon == monitors[m]
                        delta == IF variant = "better" THEN <<0, 0>>
                                 ELSE align_mask(snap_of(canvas, all_mon_rects, monitors, m).delta,
                                                 align_horizontal, align_vertical)
                        moved == move(move(canvas, mon.canvas_id, delta[1], delta[2]),
                                      mon.text_id, delta[1], delta[2])
                    IN  /\ canvas' = moved
                        /\ monitors' = [monitors EXCEPT ![m].position =
                               committed_position(coords(moved, mon.canvas_id), layout)]
               ELSE UNCHANGED <<canvas, monitors>>
    /\ UNCHANGED <<variant, converter, home, response, monitor_modes, best_modes, phase, meta_code, fatal, ready, window, layout, next_id,
                   all_mon_rects, selected, align_horizontal, align_vertical, gestures>>


(* ----------------------- rotate and rescale keys ----------------------- *)
\* Program constants of the interactive rescale (in 1/ScaleUnit).
SCALE_STEP == 5
TenthStep == 2
MinScale == 10
MaxScale == 60

\* Canvas item ids are never reused and every rotate or rescale key that
\* finds a monitor creates k new items; the model accepts MaxKeys such keys.
may_create(k) ==
    next_id + k - 1 <= StaticItems(variant) + 2 * Len(monitors) + 1 + k * MaxKeys

\* screen_placer.py: the monitor whose rectangle centre is nearest to the
\* mouse, the first such monitor on a tie.
get_selected_monitor(x, y) ==
    LET d(i) == norm2(rect_center(coords(canvas, monitors[i].canvas_id)),
                      <<x * Unit, y * Unit>>)
    IN  CHOOSE i \in 1..Len(monitors) :
            \A k \in 1..Len(monitors) : d(i) < d(k) \/ (d(i) = d(k) /\ i <= k)

\* screen_placer.py update_monitor_display: only the label is re-created,
\* at the centre of the rectangle.
relabel(c, mon, id) ==
    create_item(delete(c, {mon.text_id}), id, rect_center(coords(c, mon.canvas_id)))

\* screen_placer.py: the rectangle keeps its centre and takes half-extents
\* hw, hh.
resize_about_center(c, id, hw, hh) ==
    LET ctr == rect_center(coords(c, id))
    IN  [c EXCEPT ![id] = <<ctr[1] - hw, ctr[2] - hh, ctr[1] + hw, ctr[2] + hh>>]

\* new_w / 2 for new_w = resolution * scale / mon.scale
rotated_half_extent(res, mon_scale, L) ==
    FloatDiv(res * Unit * L.scale_n * ScaleUnit, 2 * L.scale_d * mon_scale)

\* new_w / 2 for new_w = effective * scale
scaled_half_extent(effective, L) == TimesScale(effective * Unit, L) \div 2

\* screen_placer.py, after the Monitor was changed to mon: resize and relabel.
redraw_screen_placer(m, mon, hw, hh) ==
    /\ may_create(1)
    /\ monitors' = [monitors EXCEPT ![m] = [mon EXCEPT !.text_id = next_id]]
    /\ canvas' = relabel(resize_about_center(canvas, mon.canvas_id, hw, hh), mon, next_id)
    /\ next_id' = next_id + 1
    /\ UNCHANGED selected

\* better_1 update_monitor_display: rectangle and label are deleted and drawn
\* again from the monitor's logical position; all_mon_rects is not touched.
update_monitor_display(m, mon) ==
    LET r == get_monitor_canvas_coords(mon, layout)
        c == delete(canvas, {mon.canvas_id, mon.text_id})
    IN  /\ may_create(2)
        /\ canvas' = create_item(create_item(c, next_id, r), next_id + 1, rect_center(r))
        /\ monitors' = [monitors EXCEPT ![m] =
                           [mon EXCEPT !.canvas_id = next_id, !.text_id = next_id + 1]]
        /\ next_id' = next_id + 2
        /\ selected' = IF selected = mon.canvas_id THEN 0 ELSE selected

\* better_1: the monitor whose rectangle carries the "selected" tag, 0 if none.
selected_monitor == IF selected = 0 THEN 0 ELSE monitor_of_item(selected)

KeyFrame == UNCHANGED <<variant, converter, home, response, monitor_modes, best_modes, phase, meta_code, fatal, ready, window, layout, all_mon_rects,
                        drag_data, align_horizontal, align_vertical, gestures,
                        button_down>>

\* The handler of a key finds no monitor to act on.
KeyIgnored == UNCHANGED <<monitors, canvas, next_id, selected>>

rotate_selected(x, y, clockwise) ==
    LET turn(mon) == IF clockwise THEN rotate_clockwise(mon) ELSE rotate_anticlockwise(mon)
    IN
    /\ callback_error' = FALSE
    /\ KeyFrame
    /\ IF variant = "screen_placer"
       THEN /\ ready
            /\ LET m == get_selected_monitor(x, y)
                   mon == turn(monitors[m])
               IN  redraw_screen_placer(m, mon,
                       rotated_half_extent(mon.resolution[1], mon.scale, layout),
                       rotated_half_extent(mon.resolution[2], mon.scale, layout))
       ELSE /\ variant = "better_1"
            /\ IF selected_monitor # 0
               THEN update_monitor_display(selected_monitor, turn(monitors[selected_monitor]))
               ELSE KeyIgnored

rotate_selected_clockwise(x, y) == rotate_selected(x, y, TRUE)

rotate_selected_anticlockwise(x, y) == rotate_selected(x, y, FALSE)

\* screen_placer.py: min(mon.scale + SCALE_STEP, 3.0), max(mon.scale - SCALE_STEP, 0.5)
increased_scale(scale) == Min(scale + SCALE_STEP, MaxScale)
decreased_scale(scale) == Max(scale - SCALE_STEP, MinScale)

\* Faulty variant of increased_scale_1: the sum is not capped at 3.0.
increased_scale_1_unclamped(scale) == scale + TenthStep

\* better_1: min(3.0, mon.scale + 0.1), max(0.5, mon.scale - 0.1)
increased_scale_1(scale) == Min(MaxScale, scale + TenthStep)
decreased_scale_1(scale) == Max(MinScale, scale - TenthStep)

change_by(x, y, up) ==
    LET step(scale) == IF up THEN increased_scale(scale) ELSE decreased_scale(scale)
        step_1(scale) == IF up THEN increased_scale_1(scale) ELSE decreased_scale_1(scale)
    IN
    /\ callback_error' = FALSE
    /\ KeyFrame
    /\ IF variant = "screen_placer"
       THEN /\ ready
            /\ LET m == get_selected_monitor(x, y)
                   mon == set_scale(monitors[m], step(monitors[m].scale))
                   eff == get_effective_resolution(mon)
               IN  redraw_screen_placer(m, mon, scaled_half_extent(eff[1], layout),
                                        scaled_half_extent(eff[2], layout))
       ELSE /\ variant = "better_1"
            /\ IF selected_monitor # 0
               THEN update_monitor_display(selected_monitor,
                        [monitors[selected_monitor] EXCEPT !.scale = step_1(@)])
               ELSE KeyIgnored

increase_scale(x, y) == change_by(x, y, TRUE)

decrease_scale(x, y) == change_by(x, y, FALSE)

\* better_1: the dialog answers with a scale in [0.5, 3.0], or with None
\* (here 0) when it is cancelled.
change_scale(new_scale) ==
    /\ variant = "better_1"
    /\ new_scale = 0 \/ (MinScale <= new_scale /\ new_scale <= MaxScale)
    /\ callback_error' = FALSE
    /\ KeyFrame
    /\ IF selected_monitor # 0 /\ new_scale # 0
       THEN update_monitor_display(selected_monitor,
                                   set_scale(monitors[selected_monitor], new_scale))
       ELSE KeyIgnored

(* ------------------------------- Next ---------------------------------- *)
ScaleAnswers == {0, 30}

Next ==
    \/ \E win \in Windows : on_ready(win)
    \/ toggle_horizontal
    \/ toggle_vertical
    \/ \E p \in Pointers, item \in DOMAIN canvas : on_start_drag(p[1], p[2], item)
    \/ \E p \in Pointers : on_drag(p[1], p[2])
    \/ on_end_drag
    \/ \E p \in Pointers : rotate_selected_clockwise(p[1], p[2])
    \/ \E p \in Pointers : rotate_selected_anticlockwise(p[1], p[2])
    \/ \E p \in Pointers : increase_scale(p[1], p[2])
    \/ \E p \in Pointers : decrease_scale(p[1], p[2])
    \/ \E s \in ScaleAnswers : change_scale(s)

Spec == Init /\ [][Next]_vars

(* ----------------- the snap search on a wider layout -------------------- *)
\* A layout of SnapMonitors monitors in which a monitor has just been
\* grabbed: the state that on_ready and an on_start_drag on one of the
\* rectangles leave.  From there the pointer moves over SnapPointers.
SnapMonitors == 3

SnapVariants == {"screen_placer", "better_1"}
SnapGrabs == {<<4 * i + 2, 4>> : i \in 1..SnapMonitors}
SnapPointers == {<<x, y>> : x \in 2..(4 * SnapMonitors + 6), y \in 3..5}

SnapInit ==
    /\ variant \in SnapVariants
    /\ best_modes \in BestModesOfLen(SnapMonitors)
    /\ in_mainloop
    /\ monitors = drawn_monitors(variant, create_monitors(variant, best_modes))
    /\ \E win \in Windows :
        /\ ExactScale(draw_monitors(monitors), win)
        /\ window = win
    /\ layout = on_ready_layout(draw_monitors(monitors), monitors, window)
    /\ canvas = drawn_canvas(variant, monitors, layout)
    /\ \E g \in SnapGrabs, m \in 1..Len(monitors) :
        /\ canvas[monitors[m].canvas_id][1] <= g[1] * Unit
        /\ g[1] * Unit <= canvas[monitors[m].canvas_id][3]
        /\ canvas[monitors[m].canvas_id][2] <= g[2] * Unit
        /\ g[2] * Unit <= canvas[monitors[m].canvas_id][4]
        /\ drag_data = [x |-> g[1], y |-> g[2],
                        item |-> monitors[m].canvas_id, monitor |-> m]
    /\ selected = IF variant = "better_1" THEN drag_data.item ELSE 0
    /\ ready = TRUE
    /\ next_id = first_bounding_rect_id(variant, SnapMonitors) + 1
    /\ all_mon_rects = drawn_all_mon_rects(variant, monitors)
    /\ align_horizontal = TRUE
    /\ align_vertical = TRUE
    /\ callback_error = FALSE
    /\ gestures = 1
    /\ button_down = TRUE

SnapNext ==
    \/ \E p \in SnapPointers : on_drag(p[1], p[2])
    \/ on_end_drag
    \/ toggle_horizontal
    \/ toggle_vertical

SnapSpec == SnapInit /\ [][SnapNext]_vars

(* ---------------------- the Monitor object alone ----------------------- *)
\* One Monitor as create_monitors makes it (transform 0, scale 1.0), under
\* every call of its rotation and scale methods (with arguments the asserts
\* accept and arguments they reject) and under the scale arithmetic of the
\* + and - keys of both programs.
MonitorDegrees == {-90, 0, 45, 90, 180, 270, 360}
MonitorScaleArgs == {-20, 0, 1, 25, 80}

MonitorInit ==
    /\ variant \in SnapVariants
    /\ best_modes \in BestModesOfLen(1)
    /\ in_mainloop
    /\ monitors = create_monitors(variant, best_modes)
    /\ ready = FALSE
    /\ window = <<0, 0>>
    /\ layout = draw_monitors(monitors)
    /\ canvas = [i \in 1..InstructionItems(variant) |-> <<>>]
    /\ next_id = InstructionItems(variant) + 1
    /\ all_mon_rects = <<>>
    /\ selected = 0
    /\ drag_data = [x |-> 0, y |-> 0, item |-> 0, monitor |-> 0]
    /\ align_horizontal = TRUE
    /\ align_vertical = TRUE
    /\ callback_error = FALSE
    /\ gestures = 0
    /\ button_down = FALSE

MonitorFrame == UNCHANGED <<variant, converter, home, response, monitor_modes, best_modes, phase, meta_code, fatal, ready, window, layout, canvas, next_id,
                            all_mon_rects, selected, drag_data, align_horizontal,
                            align_vertical, callback_error, gestures, button_down>>

call_rotate_clockwise ==
    /\ monitors' = [monitors EXCEPT ![1] = rotate_clockwise(@)]
    /\ MonitorFrame

call_rotate_anticlockwise ==
    /\ monitors' = [monitors EXCEPT ![1] = rotate_anticlockwise(@)]
    /\ MonitorFrame

\* The calls of set_rotation and set_scale record the AssertionError of a
\* rejected argument in fatal (the last call's outcome).
MonitorCallFrame == UNCHANGED <<variant, converter, home, response, monitor_modes, best_modes, phase, meta_code,
                                ready, window, layout, canvas, next_id, all_mon_rects,
                                selected, drag_data, align_horizontal, align_vertical,
                                callback_error, gestures, button_down>>

call_set_rotation(rotation_degree) ==
    /\ monitors' = [monitors EXCEPT ![1] = set_rotation(@, rotation_degree)]
    /\ fatal' = IF set_rotation_rejects(rotation_degree) THEN "AssertionError" ELSE ""
    /\ MonitorCallFrame

call_set_scale(scale) ==
    /\ monitors' = [monitors EXCEPT ![1] = set_scale(@, scale)]
    /\ fatal' = IF set_scale_rejects(scale) THEN "AssertionError" ELSE ""
    /\ MonitorCallFrame

\* The + key: mon.set_scale(min(mon.scale + SCALE_STEP, 3.0)) in
\* screen_placer.py, mon.scale = min(3.0, mon.scale + 0.1) in better_1.
key_increase_scale ==
    /\ monitors' = [monitors EXCEPT ![1] =
                       IF variant = "screen_placer"
                       THEN set_scale(@, increased_scale(@.scale))
                       ELSE [@ EXCEPT !.scale = increased_scale_1(@)]]
    /\ MonitorFrame

\* The - key.
key_decrease_scale ==
    /\ monitors' = [monitors EXCEPT ![1] =
                       IF variant = "screen_placer"
                       THEN set_scale(@, decreased_scale(@.scale))
                       ELSE [@ EXCEPT !.scale = decreased_scale_1(@)]]
    /\ MonitorFrame

MonitorNext ==
    \/ call_rotate_clockwise
    \/ call_rotate_anticlockwise
    \/ \E d \in MonitorDegrees : call_set_rotation(d)
    \/ \E s \in MonitorScaleArgs : call_set_scale(s)
    \/ key_increase_scale
    \/ key_decrease_scale

MonitorSpec == MonitorInit /\ [][MonitorNext]_vars

(* ------------------------- the __main__ script -------------------------- *)
\* The script from its first statement to its last print: create_monitors,
\* draw_monitors (which returns when the window is closed), the final
\* normalisation of the positions and generate_hypr_monitor_config.  Text is
\* a sequence of strings, one per character of a number and one per name or
\* separator.
MAIN_MONITOR == "DP-1"

Digits == <<"0", "1", "2", "3", "4", "5", "6", "7", "8", "9">>

RECURSIVE str_nat(_)
str_nat(n) ==
    IF n < 10 THEN <<Digits[n + 1]>>
    ELSE str_nat(n \div 10) \o <<Digits[(n % 10) + 1]>>

\* str() of an int
str_int(n) == IF n < 0 THEN <<"-">> \o str_nat(-n) ELSE str_nat(n)

\* int() of the coordinate v/Unit: truncation towards zero.
int(v) == IF v >= 0 THEN v \div Unit ELSE -((-v) \div Unit)

\* The decimals of the scale s/ScaleUnit (at most two), without trailing zeros.
decimals(scale) ==
    LET f == ((scale * 100) \div ScaleUnit) % 100
    IN  IF f = 0 THEN <<>>
        ELSE IF f % 10 = 0 THEN <<Digits[(f \div 10) + 1]>>
        ELSE <<Digits[(f \div 10) + 1], Digits[(f % 10) + 1]>>

\* "%g" % scale: no decimal point when the value is whole.
format_g(scale) ==
    IF decimals(scale) = <<>> THEN str_nat(scale \div ScaleUnit)
    ELSE str_nat(scale \div ScaleUnit) \o <<".">> \o decimals(scale)

\* f"{scale}" of a float: a whole value keeps ".0".
str_float(scale) ==
    IF decimals(scale) = <<>> THEN str_nat(scale \div ScaleUnit) \o <<".", "0">>
    ELSE str_nat(scale \div ScaleUnit) \o <<".">> \o decimals(scale)

\* One line of generate_hypr_monitor_config.  screen_placer.py prints the base
\* resolution and "%g" of the scale, better_1 the effective resolution and the
\* float itself; both always end the line with the transform.
config_line(v, mon) ==
    LET res == IF v = "screen_placer" THEN mon.base_resolution
               ELSE get_effective_resolution(mon)
        formatted_scale == IF v = "screen_placer" THEN format_g(mon.scale)
                           ELSE str_float(mon.scale)
    IN  <<"monitor=", mon.name, ",">> \o str_int(res[1]) \o <<"x">> \o str_int(res[2])
        \o <<"@">> \o str_int(mon.refresh_rate)
        \o <<",">> \o str_int(int(mon.position[1])) \o <<"x">> \o str_int(int(mon.position[2]))
        \o <<",">> \o formatted_scale \o <<",transform,">> \o str_int(mon.transform)

generate_hypr_monitor_config(v, mons) ==
    [i \in 1..Len(mons) |-> config_line(v, mons[i])]

\* Faulty variant of normalize_positions: the positions are shifted (by the
\* first monitor's position when the main monitor is missing) before the
\* main monitor is looked for.
normalize_positions_shift_first(mons) ==
    LET main == {i \in 1..Len(mons) : mons[i].name = MAIN_MONITOR}
        dp1_pos == IF main = {} THEN mons[1].position ELSE mons[SetMax(main)].position
        shifted == [i \in 1..Len(mons) |->
                       [mons[i] EXCEPT !.position = <<@[1] - dp1_pos[1], @[2] - dp1_pos[2]>>]]
    IN  IF main = {} THEN [fatal |-> "AssertionError", monitors |-> shifted]
        ELSE [fatal |-> "", monitors |-> shifted]

\* Faulty variant of normalize_positions: the positions are shifted by the
\* position of the first monitor of the list.
normalize_positions_by_first(mons) ==
    LET main == {i \in 1..Len(mons) : mons[i].name = MAIN_MONITOR}
    IN  IF main = {} THEN [fatal |-> "AssertionError", monitors |-> mons]
        ELSE LET dp1_pos == mons[1].position
             IN  [fatal |-> "",
                  monitors |-> [i \in 1..Len(mons) |->
                      [mons[i] EXCEPT !.position = <<@[1] - dp1_pos[1], @[2] - dp1_pos[2]>>]]]

\* assert MAIN_MONITOR in positions, then m.position -= dp1_pos for every
\* monitor (positions is keyed by name: the last monitor of a name is kept).
normalize_positions(mons) ==
    LET main == {i \in 1..Len(mons) : mons[i].name = MAIN_MONITOR}
    IN  IF main = {} THEN [fatal |-> "AssertionError", monitors |-> mons]
        ELSE LET dp1_pos == mons[SetMax(main)].position
             IN  [fatal |-> "",
                  monitors |-> [i \in 1..Len(mons) |->
                      [mons[i] EXCEPT !.position = <<@[1] - dp1_pos[1], @[2] - dp1_pos[2]>>]]]

\* The xrandr listings offered to the script: up to MaxMonitors connected
\* displays in any order, each with no mode line, with one, or with several
\* (equal areas, several rates of one resolution, rates half way between two
\* integers).
MainNames == {"DP-1", "DP-2", "HDMI-A-1"}
ModeLists ==
    { <<>>,
      << <<<<8, 3>>, 6000>> >>,
      << <<<<6, 4>>, 5995>>, <<<<8, 3>>, 7450>>, <<<<6, 4>>, 6050>>, <<<<4, 2>>, 14400>> >>,
      << <<<<4, 2>>, 14386>>, <<<<8, 3>>, 5950>>, <<<<8, 3>>, 5000>> >> }
MainListings ==
    UNION {{[d \in 1..n |-> [name |-> names[d], modes |-> modes[d]]] :
               names \in {f \in [1..n -> MainNames] :
                             \A a, b \in 1..n : a # b => f[a] # f[b]},
               modes \in [1..n -> ModeLists]} : n \in 0..MaxMonitors}

\* What a release can commit, before rounding.
SessionReleases == {<<-61, 20>>, <<44, -12>>}

MainInit ==
    /\ variant \in SnapVariants
    /\ not_converting
    /\ monitor_modes \in MainListings
    /\ best_modes = <<>>
    /\ phase = "start"
    /\ meta_code = <<>>
    /\ fatal = ""
    /\ monitors = <<>>
    /\ ready = FALSE
    /\ window = <<0, 0>>
    /\ layout = <<>>
    /\ canvas = <<>>
    /\ next_id = 1
    /\ all_mon_rects = <<>>
    /\ selected = 0
    /\ drag_data = [x |-> 0, y |-> 0, item |-> 0, monitor |-> 0]
    /\ align_horizontal = TRUE
    /\ align_vertical = TRUE
    /\ callback_error = FALSE
    /\ gestures = 0
    /\ button_down = FALSE

MainFrame == UNCHANGED <<variant, converter, home, response, monitor_modes, ready, window, canvas, next_id,
                         all_mon_rects, selected, drag_data, align_horizontal,
                         align_vertical, callback_error, button_down>>

\* monitors = create_monitors(): the unpacking of a display's best mode raises
\* TypeError when the mode is None.
main_create_monitors ==
    /\ phase = "start"
    /\ best_modes' = get_best_monitor_modes(monitor_modes)
    /\ IF \E d \in 1..Len(best_modes') : best_modes'[d].res = NoMode.res
       THEN phase' = "failed" /\ fatal' = "TypeError" /\ monitors' = monitors
       ELSE phase' = "created" /\ fatal' = fatal
            /\ monitors' = create_monitors(variant, best_modes')
    /\ UNCHANGED <<meta_code, layout, gestures>>
    /\ MainFrame

\* draw_monitors(monitors) up to root.mainloop(): max() of no monitor raises
\* ValueError.
main_draw_monitors ==
    /\ phase = "created"
    /\ IF monitors = <<>>
       THEN phase' = "failed" /\ fatal' = "ValueError" /\ layout' = layout
       ELSE phase' = "mainloop" /\ fatal' = fatal /\ layout' = draw_monitors(monitors)
    /\ UNCHANGED <<best_modes, meta_code, monitors, gestures>>
    /\ MainFrame

\* Inside root.mainloop() the handlers are reduced to what they leave in the
\* Monitor objects: a release commits a rounded position, the rotation keys
\* turn a monitor, the scale keys change its scale (one step from 1.0, which
\* both programs' arithmetic makes exactly).
SessionFrame ==
    /\ phase = "mainloop"
    /\ gestures < MaxGestures
    /\ gestures' = gestures + 1
    /\ UNCHANGED <<best_modes, phase, meta_code, fatal, layout>>
    /\ MainFrame

session_release(i, new) ==
    /\ SessionFrame
    /\ monitors' = [monitors EXCEPT ![i].position = rounded_position(new)]

session_rotate(i, clockwise) ==
    /\ SessionFrame
    /\ monitors' = [monitors EXCEPT ![i] =
                       IF clockwise THEN rotate_clockwise(@) ELSE rotate_anticlockwise(@)]

session_scale(i, up) ==
    /\ SessionFrame
    /\ monitors[i].scale = ScaleUnit
    /\ monitors' = [monitors EXCEPT ![i] =
                       IF variant = "screen_placer"
                       THEN set_scale(@, IF up THEN increased_scale(@.scale)
                                         ELSE decreased_scale(@.scale))
                       ELSE [@ EXCEPT !.scale = IF up THEN increased_scale_1(@)
                                                ELSE decreased_scale_1(@)]]

\* The window is closed: root.mainloop() and draw_monitors return.
close_window ==
    /\ phase = "mainloop"
    /\ phase' = "closed"
    /\ gestures' = 0
    /\ UNCHANGED <<best_modes, meta_code, fatal, monitors, layout>>
    /\ MainFrame

main_normalize ==
    /\ phase = "closed"
    /\ fatal' = normalize_positions(monitors).fatal
    /\ monitors' = normalize_positions(monitors).monitors
    /\ phase' = IF fatal' = "" THEN "normalized" ELSE "failed"
    /\ UNCHANGED <<best_modes, meta_code, layout, gestures>>
    /\ MainFrame

\* meta_code = generate_hypr_monitor_config(monitors); print(meta_code)
main_generate ==
    /\ phase = "normalized"
    /\ meta_code' = generate_hypr_monitor_config(variant, monitors)
    /\ phase' = "printed"
    /\ UNCHANGED <<best_modes, fatal, monitors, layout, gestures>>
    /\ MainFrame

MainNext ==
    \/ main_create_monitors
    \/ main_draw_monitors
    \/ \E i \in 1..Len(monitors), new \in SessionReleases : session_release(i, new)
    \/ \E i \in 1..Len(monitors), clockwise \in BOOLEAN : session_rotate(i, clockwise)
    \/ \E i \in 1..Len(monitors), up \in BOOLEAN : session_scale(i, up)
    \/ close_window
    \/ main_normalize
    \/ main_generate

MainSpec == MainInit /\ [][MainNext]_vars

(* ------------- the converter of screen_placer_better.py ---------------- *)
\* WDisplaysToHyprland.main, from the first hyprctl query to the last print.
\* A monitor of hyprctl's JSON is a record whose keys "transform" and "scale"
\* may be missing; a line of text is a sequence of strings; a file is the
\* sequence of its lines (its content split at every newline).

\* monitor.get(key, default)
get(monitor, key, default) ==
    IF key \in DOMAIN monitor THEN monitor[key] ELSE default

\* f"{refresh}" of the float refresh/RateUnit
str_rate(refresh) ==
    LET f == refresh % RateUnit
    IN  str_nat(refresh \div RateUnit) \o <<".">> \o
        (IF f % 10 = 0 THEN <<Digits[(f \div 10) + 1]>>
         ELSE <<Digits[(f \div 10) + 1], Digits[(f % 10) + 1]>>)

\* One line of get_monitor_config: the scale always, the transform when it
\* is not 0.
monitor_config_line(monitor) ==
    LET scale == get(monitor, "scale", ScaleUnit)
        transform == get(monitor, "transform", 0)
        base_config == <<"monitor=", monitor.name, ",">>
                       \o str_int(monitor.width) \o <<"x">> \o str_int(monitor.height)
                       \o <<"@">> \o str_rate(monitor.refreshRate)
                       \o <<",">> \o str_int(monitor.x) \o <<"x">> \o str_int(monitor.y)
    IN  IF transform # 0
        THEN base_config \o <<",">> \o str_float(scale) \o <<",transform,">> \o str_int(transform)
        ELSE base_config \o <<",">> \o str_float(scale)

get_monitor_config(monitors_data) ==
    [i \in 1..Len(monitors_data) |-> monitor_config_line(monitors_data[i])]

\* The names hyprctl reports, in their sorting order.
ConnectorNames == <<"DP-1", "DP-2">>

name_rank(name) == CHOOSE i \in 1..Len(ConnectorNames) : ConnectorNames[i] = name

\* normalize_monitors of has_changes: the eight fields that matter, with the
\* defaults filled in, sorted by name.
normalize_monitors(mons) ==
    LET normalized == [i \in 1..Len(mons) |->
                          [name |-> mons[i].name,
                           width |-> mons[i].width,
                           height |-> mons[i].height,
                           x |-> mons[i].x,
                           y |-> mons[i].y,
                           refreshRate |-> mons[i].refreshRate,
                           transform |-> get(mons[i], "transform", 0),
                           scale |-> get(mons[i], "scale", ScaleUnit)]]
        place(i) == Cardinality({j \in 1..Len(mons) :
                        \/ name_rank(mons[j].name) < name_rank(mons[i].name)
                        \/ name_rank(mons[j].name) = name_rank(mons[i].name) /\ j <= i})
    IN  [p \in 1..Len(mons) |-> normalized[CHOOSE i \in 1..Len(mons) : place(i) = p]]

\* has_changes: False when either state is None or empty.
has_changes(original_state, new_state) ==
    IF original_state = None \/ original_state[1] = <<>>
       \/ new_state = None \/ new_state[1] = <<>>
    THEN FALSE
    ELSE normalize_monitors(original_state[1]) # normalize_monitors(new_state[1])

\* str.strip(): the blanks at both ends are dropped.
RECURSIVE strip(_)
strip(line) ==
    IF line = <<>> THEN <<>>
    ELSE IF Head(line) = " " THEN strip(Tail(line))
    ELSE IF line[Len(line)] = " " THEN strip(SubSeq(line, 1, Len(line) - 1))
    ELSE line

lower_char(c) ==
    CASE c = "Y" -> "y" [] c = "E" -> "e" [] c = "S" -> "s"
      [] c = "N" -> "n" [] c = "O" -> "o" [] OTHER -> c

\* str.lower()
lower(chars) == [i \in 1..Len(chars) |-> lower_char(chars[i])]

\* Faulty variant of is_yes: everything but "n" and "no" applies.
is_yes_by_default(answer) == answer \notin {<<"n">>, <<"n", "o">>}

\* response in ("y", "yes")
is_yes(answer) == answer \in {<<"y">>, <<"y", "e", "s">>}

\* line.strip().startswith("monitor=")
is_monitor_line(line) == strip(line) # <<>> /\ Head(strip(line)) = "monitor="

\* backup_config: nothing without a config file; otherwise the file is
\* copied under the name of the present second, unless the copy fails.
backup_config(h, timestamp, copied) ==
    IF h.config_file = None \/ ~copied THEN h
    ELSE [h EXCEPT !.backup_dir =
             [t \in DOMAIN h.backup_dir \cup {timestamp} |->
                 IF t = timestamp THEN h.config_file[1] ELSE h.backup_dir[t]]]

\* apply_config: the lines that are not monitor lines, then the new lines;
\* nothing is written when the file cannot be read or written.
apply_config(h, config_lines, written) ==
    IF h.config_file = None \/ ~written THEN h
    ELSE [h EXCEPT !.config_file =
                       <<SelectSeq(h.config_file[1], LAMBDA line : ~is_monitor_line(line))
                         \o config_lines>>,
                   !.writes = @ + 1]

\* What hyprctl can report: DP-1 alone or with DP-2, in either order.
HyprMonitors ==
    LET base(name, x) == [name |-> name, width |-> 8, height |-> 3, refreshRate |-> 6000,
                          x |-> x, y |-> 0]
        with(m, key, v) == [k \in DOMAIN m \cup {key} |-> IF k = key THEN v ELSE m[k]]
        first == UNION {{base("DP-1", x), with(base("DP-1", x), "transform", 0),
                         with(base("DP-1", x), "transform", 1),
                         with(with(base("DP-1", x), "transform", 0), "scale", 30)}
                        : x \in {0, 8}}
        second == with(with(base("DP-2", 8), "transform", 3), "scale", ScaleUnit)
    IN  {<<>>} \cup {<<a>> : a \in first} \cup {<<a, second>> : a \in first}
        \cup {<<second, a>> : a \in first}

\* The outcome of `hyprctl monitors -j`: an error, or the parsed list.
HyprctlResults ==
    {[ok |-> FALSE, monitors |-> <<>>]} \cup {[ok |-> TRUE, monitors |-> s] : s \in HyprMonitors}

\* hyprland.conf before the run: missing, or a few lines.
ConfigFiles ==
    {None,
     << << <<"bind=", "SUPER,Q,killactive">>, <<>> >> >>,
     << << <<"monitor=", "DP-1", ",preferred,auto,1">>,
           <<" ", "monitor=", "DP-2", ",preferred,auto,1">>,
           <<"monitor", " ", "=", " ", "DP-3", ",disable">>,
           <<"bind=", "SUPER,Q,killactive">> >> >>}

\* What the user types at the prompt.
Answers ==
    {<<"y">>, <<"Y">>, <<"y", "e", "s">>, <<" ", "Y", "E", "S", " ">>,
     <<"n">>, <<>>, <<"y", "e", "s", "!">>}

\* The seconds a backup can be named after; an older backup may exist.
Timestamps == {"20260101_120000", "20260101_120001"}

BackupDirs ==
    {<<>>, [t \in {"20260101_120000"} |-> <<<<"bind=", "old">>>>]}

ConverterInit ==
    /\ variant = "better"
    /\ converter = [original_state |-> None, new_state |-> None]
    /\ home \in {[config_file |-> f, writes |-> 0, backup_dir |-> d] :
                     f \in ConfigFiles, d \in BackupDirs}
    /\ response = None
    /\ monitor_modes = <<>>
    /\ best_modes = <<>>
    /\ phase = "start"
    /\ meta_code = <<>>
    /\ fatal = ""
    /\ monitors = <<>>
    /\ ready = FALSE
    /\ window = <<0, 0>>
    /\ layout = <<>>
    /\ canvas = <<>>
    /\ next_id = 1
    /\ all_mon_rects = <<>>
    /\ selected = 0
    /\ drag_data = [x |-> 0, y |-> 0, item |-> 0, monitor |-> 0]
    /\ align_horizontal = TRUE
    /\ align_vertical = TRUE
    /\ callback_error = FALSE
    /\ gestures = 0
    /\ button_down = FALSE

ConverterFrame == UNCHANGED <<variant, monitor_modes, best_modes, meta_code, fatal, monitors,
                              ready, window, layout, canvas, next_id, all_mon_rects,
                              selected, drag_data, align_horizontal, align_vertical,
                              callback_error, gestures, button_down>>

\* self.original_state = self.run_hyprctl(): exit 1 when hyprctl fails.
converter_original_state(result) ==
    /\ phase = "start"
    /\ IF result.ok
       THEN /\ converter' = [converter EXCEPT !.original_state = <<result.monitors>>]
            /\ phase' = "original"
       ELSE /\ converter' = converter
            /\ phase' = "exit_1"
    /\ UNCHANGED <<home, response>>
    /\ ConverterFrame

\* self.run_wdisplays(): exit 1 when wdisplays is missing, interrupted or
\* cannot be started.
converter_run_wdisplays(closed) ==
    /\ phase = "original"
    /\ phase' = IF closed THEN "wdisplays_closed" ELSE "exit_1"
    /\ UNCHANGED <<converter, home, response>>
    /\ ConverterFrame

\* self.new_state = self.run_hyprctl()
converter_new_state(result) ==
    /\ phase = "wdisplays_closed"
    /\ IF result.ok
       THEN /\ converter' = [converter EXCEPT !.new_state = <<result.monitors>>]
            /\ phase' = "new"
       ELSE /\ converter' = converter
            /\ phase' = "exit_1"
    /\ UNCHANGED <<home, response>>
    /\ ConverterFrame

\* if not self.has_changes(): sys.exit(0); otherwise the lines are printed.
converter_check_changes ==
    /\ phase = "new"
    /\ phase' = IF has_changes(converter.original_state, converter.new_state)
                THEN "prompt" ELSE "exit_0"
    /\ UNCHANGED <<converter, home, response>>
    /\ ConverterFrame

\* response = input(...).strip().lower()
converter_input(answer) ==
    /\ phase = "prompt"
    /\ response' = <<lower(strip(answer))>>
    /\ phase' = "answered"
    /\ UNCHANGED <<converter, home>>
    /\ ConverterFrame

\* backup_file = self.backup_config()
converter_backup_config(timestamp, copied) ==
    /\ phase = "answered"
    /\ is_yes(response[1])
    /\ home' = backup_config(home, timestamp, copied)
    /\ phase' = "backed_up"
    /\ UNCHANGED <<converter, response>>
    /\ ConverterFrame

\* self.apply_config(config_lines)
converter_apply_config(written) ==
    /\ phase = "backed_up"
    /\ home' = apply_config(home, get_monitor_config(converter.new_state[1]), written)
    /\ phase' = IF home' # home THEN "applied" ELSE "apply_failed"
    /\ UNCHANGED <<converter, response>>
    /\ ConverterFrame

\* The else branch: the lines are left to be copied by hand.
converter_manual_copy ==
    /\ phase = "answered"
    /\ ~is_yes(response[1])
    /\ phase' = "manual"
    /\ UNCHANGED <<converter, home, response>>
    /\ ConverterFrame

ConverterNext ==
    \/ \E result \in HyprctlResults : converter_original_state(result)
    \/ \E closed \in BOOLEAN : converter_run_wdisplays(closed)
    \/ \E result \in HyprctlResults : converter_new_state(result)
    \/ converter_check_changes
    \/ \E answer \in Answers : converter_input(answer)
    \/ \E timestamp \in Timestamps, copied \in BOOLEAN :
           converter_backup_config(timestamp, copied)
    \/ \E written \in BOOLEAN : converter_apply_config(written)
    \/ converter_manual_copy

ConverterSpec == ConverterInit /\ [][ConverterNext]_vars

(* ------------------------------ claims --------------------------------- *)

\* C1: find_closest_alignment returns delta = o - d for a pair (d among the
\* dragged rectangle's keypoints, o among the other rectangles' keypoints)
\* that no other pair is closer than; the rectangle (100,100)-(300,300)
\* against one whose top-left corner is (305,298) gives delta (5,-2).
C1_ClosestPair ==
    /\ find_closest_alignment(get_key_points(<<100, 100, 300, 300>>),
                              <<get_key_points(<<305, 298, 505, 498>>)>>).delta = <<5, -2>>
    /\ (ready /\ drag_data.monitor # 0 /\ variant # "better") =>
        LET D == get_key_points(canvas[monitors[drag_data.monitor].canvas_id])
            O == [j \in 1..(Len(monitors) - 1) |->
                    get_key_points(canvas[monitors[IF j < drag_data.monitor
                                                   THEN j ELSE j + 1].canvas_id])]
            d2(a, b) == (a[1] - b[1]) * (a[1] - b[1]) + (a[2] - b[2]) * (a[2] - b[2])
            r == find_closest_alignment(D, O)
        IN  \E i \in 1..9, j \in 1..Len(O), k \in 1..9 :
                /\ r.delta = <<O[j][k][1] - D[i][1], O[j][k][2] - D[i][2]>>
                /\ \A i2 \in 1..9, j2 \in 1..Len(O), k2 \in 1..9 :
                       d2(D[i], O[j][k]) <= d2(D[i2], O[j2][k2])

\* C1 witness: a monitor is being dragged among two or more others, the
\* nearest pair is at a positive distance, differs from it in both
\* coordinates and is not the first pair of the iteration.
C1_Witness ==
    /\ ready /\ drag_data.monitor # 0 /\ variant # "better"
    /\ Len(monitors) >= 3
    /\ LET r == snap_of(canvas, all_mon_rects, monitors, drag_data.monitor)
       IN  /\ r.info[4] > 0
           /\ r.delta[1] # 0 /\ r.delta[2] # 0
           /\ r.info[1] > 0 /\ r.info[2] > 0 /\ r.info[3] > 0

\* C2: among the triples (dragged keypoint i, other monitor j, other
\* keypoint k) at the minimum distance, find_closest_alignment reports the
\* lexicographically least (i, j, k).
C2_FirstMinimiser ==
    (ready /\ drag_data.monitor # 0 /\ variant # "better") =>
        LET D == get_key_points(canvas[monitors[drag_data.monitor].canvas_id])
            O == [j \in 1..(Len(monitors) - 1) |->
                    get_key_points(canvas[monitors[IF j < drag_data.monitor
                                                   THEN j ELSE j + 1].canvas_id])]
            d2(a, b) == (a[1] - b[1]) * (a[1] - b[1]) + (a[2] - b[2]) * (a[2] - b[2])
            r == find_closest_alignment(D, O)
            i == r.info[1] + 1
            j == r.info[2] + 1
            k == r.info[3] + 1
        IN  /\ i \in 1..9 /\ j \in 1..Len(O) /\ k \in 1..9
            /\ \A i2 \in 1..9, j2 \in 1..Len(O), k2 \in 1..9 :
                   /\ d2(D[i], O[j][k]) <= d2(D[i2], O[j2][k2])
                   /\ d2(D[i], O[j][k]) = d2(D[i2], O[j2][k2]) =>
                          \/ i < i2
                          \/ i = i2 /\ j < j2
                          \/ i = i2 /\ j = j2 /\ k <= k2

\* C2 witness: the minimum is positive and is attained by the reported
\* triple, by a triple with the same dragged keypoint on a later monitor and
\* by a triple with a later dragged keypoint.
C2_Witness ==
    /\ ready /\ drag_data.monitor # 0 /\ variant # "better"
    /\ Len(monitors) >= 3
    /\ LET m == drag_data.monitor
           D == get_key_points(canvas[monitors[m].canvas_id])
           O == get_other_monitors_keypoints_tensor(canvas, all_mon_rects, m)
           r == find_closest_alignment(D, O)
       IN  /\ r.info[4] > 0
           /\ \E j2 \in 1..Len(O), k2 \in 1..9 :
                  j2 > r.info[2] + 1 /\ norm2(D[r.info[1] + 1], O[j2][k2]) = r.info[4]
           /\ \E i2 \in 1..9, j2 \in 1..Len(O), k2 \in 1..9 :
                  i2 > r.info[1] + 1 /\ norm2(D[i2], O[j2][k2]) = r.info[4]

\* C3: the translation a release applies to the dragged rectangle is 0 in x
\* when horizontal alignment is disabled and 0 in y when vertical alignment
\* is disabled; on an enabled axis it is the snap delta's component.
C3_AxisMask ==
    [][(drag_data.monitor # 0 /\ drag_data'.monitor = 0 /\ variant # "better") =>
          LET m == drag_data.monitor
              pre == canvas[monitors[m].canvas_id]
              post == canvas'[monitors[m].canvas_id]
              snap == snap_of(canvas, all_mon_rects, monitors, m).delta
          IN  /\ post[3] - pre[3] = post[1] - pre[1]
              /\ post[4] - pre[4] = post[2] - pre[2]
              /\ post[1] - pre[1] = IF align_horizontal THEN snap[1] ELSE 0
              /\ post[2] - pre[2] = IF align_vertical THEN snap[2] ELSE 0]_vars

\* C3 witness: after a release, with horizontal alignment disabled and
\* vertical alignment enabled, a monitor committed to a new height is
\* aligned with another in y (the snap is zero in y) and not in x.
C3_Witness ==
    /\ ready /\ drag_data.monitor = 0 /\ gestures >= 1 /\ variant # "better"
    /\ ~align_horizontal /\ align_vertical
    /\ \E m \in 1..Len(monitors) :
        /\ monitors[m].position[2] # create_monitors(variant, best_modes)[m].position[2]
        /\ ~keypoints_raise(canvas, all_mon_rects, m)
        /\ LET r == snap_of(canvas, all_mon_rects, monitors, m)
           IN  r.info[4] > 0 /\ r.delta[1] # 0 /\ r.delta[2] = 0

\* C4: when the dragged monitor is the only one, the search returns the
\* zero delta and the release completes without error: the rectangle stays
\* where the drag left it, the drag state is cleared and the committed
\* position is the integer nearest to the inverse transform of the
\* rectangle's top-left corner.
C4_OnlyMonitor ==
    [][(Len(monitors) = 1 /\ drag_data.monitor # 0 /\ variant # "better" /\ on_end_drag) =>
          LET id == monitors[1].canvas_id
              new == inverse_transform(canvas[id][1], canvas[id][2], layout)
              pos == monitors'[1].position
              away(a, b) == IF a >= b THEN a - b ELSE b - a
          IN  /\ find_closest_alignment(get_key_points(canvas[id]), <<>>).delta = <<0, 0>>
              /\ get_other_monitors_keypoints_tensor(canvas, all_mon_rects, 1) = <<>>
              /\ ~callback_error'
              /\ drag_data'.item = 0 /\ drag_data'.monitor = 0
              /\ canvas'[id] = canvas[id]
              /\ pos[1] % Unit = 0 /\ pos[2] % Unit = 0
              /\ 2 * away(pos[1], new[1]) <= Unit
              /\ 2 * away(pos[2], new[2]) <= Unit]_vars

\* C4 witness: the only monitor of a layout was dragged and released, and
\* its committed position is no longer the one it was created with.
C4_Witness ==
    /\ ready /\ Len(monitors) = 1 /\ variant # "better"
    /\ drag_data.monitor = 0 /\ gestures >= 1 /\ ~callback_error
    /\ monitors[1].position # create_monitors(variant, best_modes)[1].position
    /\ monitors[1].position =
           inverse_transform(canvas[monitors[1].canvas_id][1],
                             canvas[monitors[1].canvas_id][2], layout)

C6_ReleaseEndsIdle ==
    [][on_end_drag => (drag_data'.item = 0 /\ drag_data'.monitor = 0)]_vars

\* C7: every monitor's logical position is a pair of integers in every
\* state.
C7_IntegerPositions ==
    \A m \in 1..Len(monitors) :
        monitors[m].position[1] % Unit = 0 /\ monitors[m].position[2] % Unit = 0

\* C7 witness: a release committed a position for a rectangle whose
\* inverse-transformed corner is not a whole logical pixel.
C7_Witness ==
    /\ ready /\ drag_data.monitor = 0 /\ gestures >= 1 /\ ~callback_error
    /\ \E m \in 1..Len(monitors) :
        LET id == monitors[m].canvas_id
            new == inverse_transform(canvas[id][1], canvas[id][2], layout)
        IN  /\ new[2] % Unit # 0
            /\ monitors[m].position = <<round(new[1]) * Unit, round(new[2]) * Unit>>
            /\ monitors[m].position # create_monitors(variant, best_modes)[m].position

\* C8: both alignment flags start enabled; toggle_horizontal flips only the
\* horizontal flag, toggle_vertical only the vertical flag, and no
\* pointer-down, pointer-move or pointer-up event changes either flag.
C8_Flags ==
    /\ align_horizontal = TRUE
    /\ align_vertical = TRUE
    /\ [][/\ toggle_horizontal =>
                 (align_horizontal' = ~align_horizontal /\ align_vertical' = align_vertical)
          /\ toggle_vertical =>
                 (align_vertical' = ~align_vertical /\ align_horizontal' = align_horizontal)
          /\ (\/ \E p \in Pointers, item \in DOMAIN canvas : on_start_drag(p[1], p[2], item)
              \/ \E p \in Pointers : on_drag(p[1], p[2])
              \/ on_end_drag) =>
                 (align_horizontal' = align_horizontal /\ align_vertical' = align_vertical)]_vars

\* C8 witness: a gesture is in progress with the horizontal flag disabled
\* and the vertical flag enabled.
C8_Witness ==
    /\ ready /\ variant # "better"
    /\ drag_data.monitor # 0 /\ gestures >= 2
    /\ ~align_horizontal /\ align_vertical

\* C9: a monitor created with a valid transform and a positive scale keeps
\* its rotation step in {0,1,2,3} and its scale positive under every
\* sequence of rotate_clockwise, rotate_anticlockwise, set_rotation,
\* set_scale and the + and - keys.
C9_RotationAndScaleValid ==
    \A m \in 1..Len(monitors) :
        monitors[m].transform \in {0, 1, 2, 3} /\ monitors[m].scale > 0

\* C9 witness: the monitor is at rotation step 3 with the smallest scale set_scale
\* was given.
C9_Witness ==
    ~ready /\ Len(monitors) = 1 /\ monitors[1].transform = 3 /\ monitors[1].scale = 1

\* C10: four applications of rotate_clockwise return the rotation step and
\* the rotated resolution of a monitor to what they were.
C10_FourRotations ==
    \A m \in 1..Len(monitors) :
        LET r4 == rotate_clockwise(rotate_clockwise(rotate_clockwise(
                      rotate_clockwise(monitors[m]))))
        IN  r4.transform = monitors[m].transform /\ r4.resolution = monitors[m].resolution

\* C10 witness: a monitor that is not square stands at rotation step 3, with
\* its resolution exchanged; the next rotate_clockwise wraps to step 0.
C10_Witness ==
    /\ ~ready /\ Len(monitors) = 1
    /\ monitors[1].transform = 3
    /\ monitors[1].base_resolution[1] # monitors[1].base_resolution[2]
    /\ monitors[1].resolution = <<monitors[1].base_resolution[2], monitors[1].base_resolution[1]>>
    /\ rotate_clockwise(monitors[1]).resolution = monitors[1].base_resolution

\* C11: rotate_clockwise followed by rotate_anticlockwise leaves a monitor's
\* rotation step and its rotated resolution as they were, from every step
\* (clockwise wraps from 3 to 0, anticlockwise from 0 to 3).
C11_ThereAndBack ==
    \A m \in 1..Len(monitors) :
        LET back == rotate_anticlockwise(rotate_clockwise(monitors[m]))
        IN  /\ back.transform = monitors[m].transform
            /\ back.resolution = monitors[m].resolution

\* C11 witness: rotations have brought a monitor that is not square to step 3;
\* rotate_clockwise wraps it to step 0 and rotate_anticlockwise wraps it back.
C11_Witness ==
    /\ ~ready /\ Len(monitors) = 1
    /\ monitors[1].transform = 3
    /\ monitors[1].resolution # monitors[1].base_resolution
    /\ rotate_clockwise(monitors[1]).transform = 0
    /\ rotate_anticlockwise(rotate_clockwise(monitors[1])).transform = 3

C13_NineKeyPoints ==
    /\ \A id \in 1..Len(canvas) :
           Len(canvas[id]) = 4 =>
               LET x1 == canvas[id][1]
                   y1 == canvas[id][2]
                   x2 == canvas[id][3]
                   y2 == canvas[id][4]
                   P == get_key_points(canvas[id])
               IN  /\ Len(P) = 9
                   /\ P[1] = <<x1, y1>> /\ P[2] = <<x2, y1>>
                   /\ P[3] = <<x2, y2>> /\ P[4] = <<x1, y2>>
                   /\ 2 * P[5][1] = x1 + x2 /\ P[5][2] = y1
                   /\ P[6][1] = x2 /\ 2 * P[6][2] = y1 + y2
                   /\ 2 * P[7][1] = x1 + x2 /\ P[7][2] = y2
                   /\ P[8][1] = x1 /\ 2 * P[8][2] = y1 + y2
                   /\ 2 * P[9][1] = x1 + x2 /\ 2 * P[9][2] = y1 + y2
                   /\ 2 * P[9][1] = P[1][1] + P[3][1] /\ 2 * P[9][2] = P[1][2] + P[3][2]
                   /\ 2 * P[9][1] = P[2][1] + P[4][1] /\ 2 * P[9][2] = P[2][2] + P[4][2]
    /\ get_key_points(<<100, 100, 300, 300>>) =
           << <<100, 100>>, <<300, 100>>, <<300, 300>>, <<100, 300>>,
              <<200, 100>>, <<300, 200>>, <<200, 300>>, <<100, 200>>, <<200, 200>> >>
    /\ get_key_points(<<7, 5, 7, 5>>) = [n \in 1..9 |-> <<7, 5>>]

\* C13 witness: a pointer motion has moved a grabbed rectangle, wider than it
\* is high, whose center does not fall on a whole pixel.
C13_Witness ==
    /\ ready /\ drag_data.monitor # 0 /\ drag_data.y = 3
    /\ LET r == canvas[drag_data.item]
       IN  /\ Len(r) = 4
           /\ r[3] - r[1] > r[4] - r[2]
           /\ get_key_points(r)[9][2] % Unit # 0
           /\ get_key_points(r)[9] # get_key_points(r)[1]

\* C14: once the modes are selected, every display that lists modes has
\* exactly one pair: a listed resolution of the largest area, the first such
\* resolution of the listing when areas are equal, with the greatest rate
\* listed for it rounded to a nearest integer; selecting again from the same
\* listing gives the same pairs.
C14_BestMode ==
    phase # "start" =>
        /\ Len(best_modes) = Len(monitor_modes)
        /\ get_best_monitor_modes(monitor_modes) = best_modes
        /\ \A d \in 1..Len(monitor_modes) :
               LET modes == monitor_modes[d].modes
                   res == best_modes[d].res
                   first(r) == SetMin({k \in 1..Len(modes) : modes[k][1] = r})
                   rates == {modes[k][2] : k \in {j \in 1..Len(modes) : modes[j][1] = res}}
               IN  modes # <<>> =>
                       /\ best_modes[d].name = monitor_modes[d].name
                       /\ \E k \in 1..Len(modes) : modes[k][1] = res
                       /\ \A k \in 1..Len(modes) :
                              /\ modes[k][1][1] * modes[k][1][2] <= res[1] * res[2]
                              /\ modes[k][1][1] * modes[k][1][2] = res[1] * res[2]
                                     => first(res) <= first(modes[k][1])
                       /\ \E top \in rates :
                              /\ \A r \in rates : r <= top
                              /\ 2 * (best_modes[d].refresh * RateUnit - top) <= RateUnit
                              /\ 2 * (top - best_modes[d].refresh * RateUnit) <= RateUnit

\* C14 witness: the modes were selected for a display that lists two
\* resolutions of the largest area and two rates for the first of them, the
\* greater one half way between 60 and 61.
C14_Witness ==
    /\ phase = "created"
    /\ \E d \in 1..Len(monitor_modes) :
           /\ Len(monitor_modes[d].modes) = 4
           /\ \E k \in 1..4 : monitor_modes[d].modes[k][1] = <<8, 3>>
           /\ \E k \in 1..4 : monitor_modes[d].modes[k] = <<<<6, 4>>, 6050>>
           /\ best_modes[d].res = <<6, 4>>
           /\ best_modes[d].refresh = 60

\* C15: when a display of the listing has no mode, monitor creation still
\* completes, with one Monitor for every display that has a mode and none for
\* the others.
C15_ModelessExcluded ==
    (phase # "start" /\ \E d \in 1..Len(monitor_modes) : monitor_modes[d].modes = <<>>) =>
        /\ fatal = ""
        /\ {monitors[i].name : i \in 1..Len(monitors)} =
               {monitor_modes[d].name :
                    d \in {e \in 1..Len(monitor_modes) : monitor_modes[e].modes # <<>>}}

C17_ZeroMonitorsScalar ==
    (phase # "start" /\ monitor_modes = <<>>) =>
        /\ fatal = ""
        /\ calculate_monitor_offset(monitors) # <<0, 0>>

\* C18: when no monitor bears the main monitor's name, the step after the
\* window is closed fails with the assertion's error, leaves every monitor's
\* position as it was and prints no config line; nothing happens after the
\* failure.
C18_MissingMainIsFatal ==
    [][ /\ (phase = "closed" /\ \A i \in 1..Len(monitors) : monitors[i].name # MAIN_MONITOR)
            => /\ phase' = "failed"
               /\ fatal' = "AssertionError"
               /\ monitors' = monitors
               /\ meta_code' = <<>>
        /\ phase = "failed" => (monitors' = monitors /\ meta_code' = meta_code) ]_vars

\* C18 witness: the script failed on the assertion with two monitors, none of
\* them the main one, one of them dragged away from the origin.
C18_Witness ==
    /\ phase = "failed" /\ fatal = "AssertionError"
    /\ Len(monitors) = 2
    /\ \A i \in 1..2 : monitors[i].name # MAIN_MONITOR
    /\ \A i \in 1..2 : monitors[i].position # <<0, 0>>
    /\ monitors[1].position[2] # 0
    /\ meta_code = <<>>

\* C19: every printed line is monitor=<name>,<W>x<H>@<refresh>,<x>x<y>,<scale>
\* followed by ,transform,<n> exactly when the rotation step n is not 0; for
\* DP-1, 1920x1080, position (0,0), refresh 60, scale 1, rotation 0 the line
\* is monitor=DP-1,1920x1080@60,0x0,1.
C19_TransformOnlyWhenRotated ==
    /\ phase = "printed" =>
           \A i \in 1..Len(monitors) :
               LET mon == monitors[i]
                   head == <<"monitor=", mon.name, ",">>
                           \o str_int(mon.resolution[1]) \o <<"x">> \o str_int(mon.resolution[2])
                           \o <<"@">> \o str_int(mon.refresh_rate) \o <<",">>
                           \o str_int(int(mon.position[1])) \o <<"x">>
                           \o str_int(int(mon.position[2])) \o <<",">> \o format_g(mon.scale)
               IN  meta_code[i] = IF mon.transform = 0 THEN head
                                  ELSE head \o <<",transform,">> \o str_int(mon.transform)
    /\ phase = "printed" =>
           generate_hypr_monitor_config(
               variant, <<Monitor("DP-1", <<0, 0>>, <<1920, 1080>>, 60, 0, ScaleUnit)>>)
           = << <<"monitor=", "DP-1", ",", "1", "9", "2", "0", "x", "1", "0", "8", "0",
                  "@", "6", "0", ",", "0", "x", "0", ",", "1">> >>

\* C20: a call of set_scale with a scale that is not positive, and a call of
\* set_rotation with a degree other than 0, 90, 180, 270, ends in an error and
\* leaves the monitor (scale, rotation step, rotated resolution) as it was.
C20_InvalidRejected ==
    [][ /\ \A s \in MonitorScaleArgs :
               (s <= 0 /\ call_set_scale(s))
                   => (fatal' = "AssertionError" /\ monitors' = monitors)
        /\ \A d \in MonitorDegrees :
               (d \notin {0, 90, 180, 270} /\ call_set_rotation(d))
                   => (fatal' = "AssertionError" /\ monitors' = monitors) ]_vars

\* C20 witness: a call was rejected on a monitor that had been turned and
\* rescaled before; it is still turned and rescaled.
C20_Witness ==
    /\ fatal = "AssertionError"
    /\ ~ready /\ Len(monitors) = 1
    /\ monitors[1].transform = 1
    /\ monitors[1].resolution # monitors[1].base_resolution
    /\ monitors[1].scale = 25

\* C21 (as stated): from a scale inside [0.5, 3.0] an increase or a decrease
\* keeps the scale inside [0.5, 3.0], leaves it alone at the bound it pushes
\* against, and changes it by exactly one step everywhere else.
C21_ExactSteps ==
    [][ LET s == monitors[1].scale
            t == monitors'[1].scale
            step == IF variant = "screen_placer" THEN SCALE_STEP ELSE TenthStep
        IN  (MinScale <= s /\ s <= MaxScale) =>
                /\ key_increase_scale =>
                       /\ MinScale <= t /\ t <= MaxScale
                       /\ IF s = MaxScale THEN t = s ELSE t = s + step
                /\ key_decrease_scale =>
                       /\ MinScale <= t /\ t <= MaxScale
                       /\ IF s = MinScale THEN t = s ELSE t = s - step ]_vars

\* C21 (amended): from a scale inside [0.5, 3.0] an increase or a decrease
\* keeps the scale inside [0.5, 3.0]; it changes the scale by exactly one step
\* when the result stays inside, and puts it on the bound otherwise (also
\* from a scale less than one step away from the bound).
C21_ClampedSteps ==
    [][ LET s == monitors[1].scale
            t == monitors'[1].scale
            step == IF variant = "screen_placer" THEN SCALE_STEP ELSE TenthStep
        IN  (MinScale <= s /\ s <= MaxScale) =>
                /\ key_increase_scale =>
                       /\ MinScale <= t /\ t <= MaxScale
                       /\ IF s + step <= MaxScale THEN t = s + step ELSE t = MaxScale
                /\ key_decrease_scale =>
                       /\ MinScale <= t /\ t <= MaxScale
                       /\ IF s - step >= MinScale THEN t = s - step ELSE t = MinScale ]_vars

\* C21 witness: in better_1 a scale of 1.25 was set and raised by steps of 0.1
\* to 2.95, less than one step below the maximum; the next increase gives 3.0.
C21_Witness ==
    /\ variant = "better_1" /\ ~ready /\ Len(monitors) = 1
    /\ monitors[1].scale = MaxScale - 1
    /\ increased_scale_1(monitors[1].scale) = MaxScale

\* C22: for any two monitor rectangles A and B on the canvas, the minimum
\* distance the snap search finds with A dragged and B the only other
\* rectangle is the one it finds with B dragged and A the only other; each
\* delta has that length, though the two need not be opposite.
C22_SymmetricDistance ==
    ready =>
        \A a, b \in 1..Len(monitors) :
            LET A == coords(canvas, monitors[a].canvas_id)
                B == coords(canvas, monitors[b].canvas_id)
                ab == find_closest_alignment(get_key_points(A), <<get_key_points(B)>>)
                ba == find_closest_alignment(get_key_points(B), <<get_key_points(A)>>)
            IN  (a # b /\ Len(A) = 4 /\ Len(B) = 4) =>
                    /\ ab.info[4] = ba.info[4]
                    /\ ab.delta[1] * ab.delta[1] + ab.delta[2] * ab.delta[2] = ab.info[4]
                    /\ ba.delta[1] * ba.delta[1] + ba.delta[2] * ba.delta[2] = ba.info[4]

\* C22 witness: two rectangles of different sizes at a positive distance for
\* which the two searches return deltas that are not opposite (the first
\* minimiser of each search is another pair of keypoints).
C22_Witness ==
    /\ ready /\ Len(monitors) = 2
    /\ LET A == coords(canvas, monitors[1].canvas_id)
           B == coords(canvas, monitors[2].canvas_id)
           ab == find_closest_alignment(get_key_points(A), <<get_key_points(B)>>)
           ba == find_closest_alignment(get_key_points(B), <<get_key_points(A)>>)
       IN  /\ Len(A) = 4 /\ Len(B) = 4
           /\ A[3] - A[1] # B[3] - B[1]
           /\ ab.info[4] > 0
           /\ ab.delta # <<-ba.delta[1], -ba.delta[2]>>

\* C23: a press in the Idle state starts a drag exactly when the item
\* find_closest answers is the rectangle of a monitor, and then records that
\* item, that monitor and the pointer; a press on any other item (a label,
\* the background, the bounding box) records nothing and the state stays Idle.
C23_PressStartsDrag ==
    [][ \A p \in Pointers, item \in DOMAIN canvas :
            (drag_data.item = 0 /\ drag_data.monitor = 0 /\ on_start_drag(p[1], p[2], item)) =>
                IF \E m \in 1..Len(monitors) : monitors[m].canvas_id = item
                THEN /\ drag_data'.item = item
                     /\ drag_data'.monitor \in 1..Len(monitors)
                     /\ monitors[drag_data'.monitor].canvas_id = item
                     /\ drag_data'.x = p[1] /\ drag_data'.y = p[2]
                ELSE /\ drag_data'.item = 0 /\ drag_data'.monitor = 0
                     /\ drag_data' = drag_data ]_vars

\* C23 witness: the second press of a session has started a drag of the
\* second monitor, whose rectangle and pointer are recorded.
C23_Witness ==
    /\ ready /\ button_down /\ gestures = 2
    /\ drag_data.monitor = 2
    /\ drag_data.item = monitors[2].canvas_id
    /\ <<drag_data.x, drag_data.y>> \in Pointers
    /\ drag_data.item \in find_closest(drag_data.x, drag_data.y)

\* C24: a pointer motion during a drag translates the rectangle and the label
\* of the dragged monitor by the pointer's displacement since the recorded
\* pointer (no snap is added), records the new pointer and changes no other
\* item and no monitor; a pointer motion in the Idle state changes nothing.
C24_DragTranslates ==
    [][ \A p \in Pointers :
            on_drag(p[1], p[2]) =>
                IF drag_data.item # 0
                THEN LET mon == monitors[drag_data.monitor]
                         dx == (p[1] - drag_data.x) * Unit
                         dy == (p[2] - drag_data.y) * Unit
                         shifted(id) ==
                             [n \in 1..Len(canvas[id]) |->
                                 canvas[id][n] + (IF n \in {1, 3} THEN dx ELSE dy)]
                     IN  /\ DOMAIN canvas' = DOMAIN canvas
                         /\ \A id \in DOMAIN canvas :
                                canvas'[id] = IF id \in {mon.canvas_id, mon.text_id}
                                              THEN shifted(id) ELSE canvas[id]
                         /\ drag_data' = [drag_data EXCEPT !.x = p[1], !.y = p[2]]
                         /\ monitors' = monitors
                ELSE canvas' = canvas /\ drag_data' = drag_data /\ monitors' = monitors ]_vars

\* C24 witness: in the first drag of a session the pointer has moved down and
\* the dragged rectangle with it, below the other monitor's rectangle, while
\* the dragged monitor's position is still the one it was created with.
C24_Witness ==
    /\ ready /\ button_down /\ gestures = 1 /\ Len(monitors) = 2
    /\ drag_data.monitor # 0 /\ drag_data.y = 5
    /\ LET m == drag_data.monitor
           r == coords(canvas, monitors[m].canvas_id)
           o == coords(canvas, monitors[3 - m].canvas_id)
       IN  /\ Len(r) = 4 /\ Len(o) = 4
           /\ r[2] > o[2]
           /\ monitors[m].position[2] = 0

\* C25: when the window is closed with the main monitor in the list, the
\* normalisation puts the main monitor at (0,0), shifts every monitor by the
\* position the main monitor had, wherever it stands in the list, and so
\* keeps the difference of any two monitors' positions.
C25_NormalizedOnMain ==
    [][ (phase = "closed" /\ \E i \in 1..Len(monitors) : monitors[i].name = MAIN_MONITOR) =>
            /\ phase' = "normalized"
            /\ Len(monitors') = Len(monitors)
            /\ \A i \in 1..Len(monitors) :
                   /\ monitors'[i].name = monitors[i].name
                   /\ monitors[i].name = MAIN_MONITOR =>
                          /\ monitors'[i].position = <<0, 0>>
                          /\ \A j \in 1..Len(monitors) :
                                 /\ monitors'[j].position[1]
                                        = monitors[j].position[1] - monitors[i].position[1]
                                 /\ monitors'[j].position[2]
                                        = monitors[j].position[2] - monitors[i].position[2]
                   /\ \A j \in 1..Len(monitors) :
                          /\ monitors'[i].position[1] - monitors'[j].position[1]
                                 = monitors[i].position[1] - monitors[j].position[1]
                          /\ monitors'[i].position[2] - monitors'[j].position[2]
                                 = monitors[i].position[2] - monitors[j].position[2] ]_vars

\* C25 witness: the positions were normalised for two monitors with the main
\* monitor second in the list; the main monitor is at (0,0) and the other one,
\* which started on the same row, is neither beside it nor on its row.
C25_Witness ==
    /\ phase = "normalized" /\ Len(monitors) = 2
    /\ monitors[2].name = MAIN_MONITOR
    /\ monitors[2].position = <<0, 0>>
    /\ monitors[1].position[2] # 0
    /\ monitors[1].position[1] < 0

\* C26: the inverse mapping of a release undoes the forward mapping of the
\* drawing: when the grabbed rectangle is where the forward mapping puts its
\* monitor (it was not rotated or rescaled since, and the pointer came back
\* to where it was pressed) and no snap delta is applied (both flags
\* disabled, or no other rectangle), the release commits the integer
\* position the monitor had before the press.
C26_InverseUndoesForward ==
    [][(/\ drag_data.monitor # 0
        /\ canvas[monitors[drag_data.monitor].canvas_id] =
               get_monitor_canvas_coords(monitors[drag_data.monitor], layout)
        /\ \/ ~align_horizontal /\ ~align_vertical
           \/ Len(monitors) = 1
        /\ on_end_drag) =>
          /\ inverse_transform(canvas[monitors[drag_data.monitor].canvas_id][1],
                               canvas[monitors[drag_data.monitor].canvas_id][2],
                               layout) = monitors[drag_data.monitor].position
          /\ monitors' = monitors
          /\ canvas' = canvas]_vars

\* C26 witness: in a layout of two monitors with both flags disabled, a
\* monitor away from the origin was pressed and released with the pointer
\* back where it was pressed: its rectangle is where the forward mapping
\* draws it, after the round trip through the inverse mapping of a corner
\* that is not at the canvas origin, and every position is the one the
\* monitor was created with.
C26_Witness ==
    /\ ready /\ ~button_down /\ gestures = 1 /\ ~callback_error
    /\ variant = "screen_placer"
    /\ ~align_horizontal /\ ~align_vertical
    /\ Len(monitors) = 2
    /\ drag_data.monitor = 0
    /\ monitors = drawn_monitors(variant, create_monitors(variant, best_modes))
    /\ \E m \in 1..2 :
        /\ monitors[m].position # <<0, 0>>
        /\ drag_data.x * Unit >= canvas[monitors[m].canvas_id][1]
        /\ drag_data.x * Unit <= canvas[monitors[m].canvas_id][3]
        /\ canvas[monitors[m].canvas_id] = get_monitor_canvas_coords(monitors[m], layout)
        /\ layout.monitor_offset_y # 0

\* C27: in WDisplaysToHyprland.main the config file is written only when
\* has_changes() reported a change and the answer (stripped, in lower case)
\* was y or yes, and only after backup_config was invoked; a backup is made
\* and the prompt is shown only when a change was reported; when no change is
\* detected the program exits at once, with no answer read and the files
\* untouched, and nothing happens after the exit.
C27_WrittenOnlyWhenConfirmed ==
    [][LET changed == has_changes(converter.original_state, converter.new_state)
       IN  /\ (home'.config_file # home.config_file \/ home'.writes # home.writes) =>
                  /\ changed
                  /\ response # None
                  /\ response[1] \in {<<"y">>, <<"y", "e", "s">>}
                  /\ phase = "backed_up"
                  /\ home'.backup_dir = home.backup_dir
           /\ phase' = "backed_up" =>
                  /\ phase = "answered"
                  /\ changed
                  /\ response[1] \in {<<"y">>, <<"y", "e", "s">>}
                  /\ home'.config_file = home.config_file /\ home'.writes = home.writes
                  /\ \E timestamp \in Timestamps, copied \in BOOLEAN :
                         home' = backup_config(home, timestamp, copied)
           /\ home'.backup_dir # home.backup_dir => phase' = "backed_up"
           /\ response' # response => (changed /\ phase = "prompt" /\ response = None)
           /\ (phase = "new" /\ ~changed) =>
                  (phase' = "exit_0" /\ response' = None /\ home' = home /\ home.writes = 0)
           /\ phase \in {"start", "original", "wdisplays_closed", "new"} =>
                  (response = None /\ home' = home)
           /\ phase \notin {"exit_0", "exit_1"}]_vars

\* C27 witness: hyprctl listed the two monitors in another order and DP-1 at
\* another place, the user answered yes, the old file was copied to the
\* backup directory and the file was then rewritten: its monitor lines are
\* replaced by the two new ones, its other lines are kept.
C27_Witness ==
    /\ phase = "applied"
    /\ response = << <<"y", "e", "s">> >>
    /\ home.writes = 1
    /\ Len(converter.original_state[1]) = 2 /\ Len(converter.new_state[1]) = 2
    /\ converter.original_state[1][1].name = "DP-1"
    /\ converter.new_state[1][1].name = "DP-2"
    /\ "20260101_120001" \in DOMAIN home.backup_dir
    /\ Len(home.backup_dir["20260101_120001"]) = 4
    /\ is_monitor_line(home.backup_dir["20260101_120001"][2])
    /\ Len(home.config_file[1]) = 4
    /\ home.config_file[1][1] = <<"monitor", " ", "=", " ", "DP-3", ",disable">>
    /\ home.config_file[1][3][2] = "DP-2"
    /\ home.config_file[1][4][2] = "DP-1"

\* C28: a release changes the logical position of the dragged monitor only:
\* every monitor keeps its name, rotation step, scale, base resolution,
\* resolution and canvas items, every other monitor keeps its position and
\* the coordinates of its rectangle and label; and no step of a session
\* changes the number or the names of the monitors.
C28_ReleaseFrame ==
    [][/\ Len(monitors') = Len(monitors)
       /\ \A i \in 1..Len(monitors) : monitors'[i].name = monitors[i].name
       /\ on_end_drag =>
              \A i \in 1..Len(monitors) :
                  /\ monitors'[i] = [monitors[i] EXCEPT !.position = monitors'[i].position]
                  /\ i # drag_data.monitor =>
                         /\ monitors'[i].position = monitors[i].position
                         /\ coords(canvas', monitors[i].canvas_id)
                                = coords(canvas, monitors[i].canvas_id)
                         /\ coords(canvas', monitors[i].text_id)
                                = coords(canvas, monitors[i].text_id)]_vars

\* C28 witness: of two monitors, one was turned by a quarter and has since
\* kept the position it was created with, while the other was dragged and
\* released at a new position next to it.
C28_Witness ==
    /\ ready /\ ~button_down /\ drag_data.monitor = 0 /\ ~callback_error
    /\ Len(monitors) = 2
    /\ \E m, o \in 1..2 :
        /\ m # o
        /\ monitors[o].transform = 1
        /\ monitors[o].position = create_monitors(variant, best_modes)[o].position
        /\ monitors[m].position # create_monitors(variant, best_modes)[m].position
        /\ monitors[m].transform = 0
        /\ monitors[m].position = committed_position(canvas[monitors[m].canvas_id], layout)

\* C29: in screen_placer_better_1.py, once the layout is drawn, the id that
\* all_mon_rects stores for a monitor is the monitor's current canvas_id and
\* names a rectangle of the canvas.
C29_RectsCurrent ==
    (variant = "better_1" /\ ready) =>
        \A m \in 1..Len(monitors) :
            /\ all_mon_rects[m] = monitors[m].canvas_id
            /\ all_mon_rects[m] \in DOMAIN canvas
            /\ Len(canvas[all_mon_rects[m]]) = 4

\* C30: in screen_placer.py, whenever no drag is in progress, every
\* monitor's logical position is the rounded inverse transform of the
\* top-left corner of its rectangle, also after the rotate and scale keys.
C30_PositionIsDisplayed ==
    (variant = "screen_placer" /\ ready /\ drag_data.monitor = 0) =>
        \A m \in 1..Len(monitors) :
            monitors[m].position =
                committed_position(coords(canvas, monitors[m].canvas_id), layout)

====
